---- MODULE Spec2Model ----
(***************************************************************************)
(* Verification model of openiti-discovery: the ingestion pipeline         *)
(* (apps/api/app/ingest/run.py), the query engine (apps/api/app/main.py),  *)
(* the chunker and the two text normalizers.                               *)
(*                                                                         *)
(* These specifications share this module:                                 *)
(*   Spec        run() of the ingestion pipeline over a small corpus       *)
(*   SpecIdem    the same, with the corpus files left unchanged            *)
(*   SpecSearch  the /search handler over bounded store contents           *)
(*   SpecChunk   chunk_words applied to bounded inputs                     *)
(*   SpecNorm    the normalizers applied (repeatedly) to bounded strings   *)
(*   SpecSanitize  sanitize_highlight_html applied to bounded fragments     *)
(*   SpecFacets  _build_facets applied to bounded aggregations             *)
(*   SpecDiscover  discover_200_pri_arabic applied to a small corpus       *)
(*   SpecClients  request threads inside the lazy client getters           *)
(*   SpecColl  the vector collection set-up at the start of each run       *)
(***************************************************************************)
EXTENDS Integers, Sequences, FiniteSets, TLC

VARIABLES
    \* ---- chunker (chunk_words) ----
    words, target, overlap, emitted, chunk_pc,
    \* ---- normalizers ----
    text, before, norm_cfg, norm_side, applied,
    \* ---- ingestion: the corpus files and the three stores ----
    corpus,               \* file content of each discovered document
    authors, works,       \* relational rows (ids)
    versions,             \* versions table, by version_id
    ingest_state,         \* ingest_state table, by version_id
    chunks,               \* chunks table (set of rows)
    os_index,             \* lexical index (set of documents with their _id)
    qdrant,               \* vector collection (set of points)
    \* ---- ingestion: the run() process ----
    embeddings_enabled,   \* EMBEDDINGS_ENABLED
    pc, run_no, t_idx,    \* position in run(), runs started, index into texts
    raw,                  \* content read from the current file
    gen,                  \* chunks chunk_words has still to yield
    chunk_rows, os_docs, chunks_for_vectors,   \* the three buffers
    in_final,             \* the flush under way is the final flush
    exc,                  \* message of the exception being handled
    faults,               \* store/IO calls that have raised so far
    \* ---- query engine (main.py search) ----
    os_relevance,         \* lexical hits for q, best _score first (doc ids)
    qd_similarity,        \* points of the collection, nearest to q first
    hybrid_cfg,           \* the "hybrid" section of the runtime config
    search_pc,            \* "off", "ready" (request awaited), "done"
    req,                  \* the request served
    resp,                 \* the response returned
    calls,                \* collaborator calls the handler made, in order
    embedding_cfg,        \* the "embedding" section of the runtime config
    embed_req,            \* the /embed request served
    embed_resp,           \* the /embed response returned
    model_inputs,         \* the prepared texts handed to the embedding model
    \* ---- highlight sanitizer (sanitize_highlight_html) ----
    html_in,              \* the highlight fragment, a sequence of characters
    html_out,             \* the sanitized fragment
    html_pc,              \* "off", "ready", "done"
    \* ---- facet shaping (_build_facets) ----
    facet_labels,         \* the label table: (dimension, key) -> label
    facet_aggs,           \* the aggregations handed to _build_facets
    facet_out,            \* the facets it returned
    facet_pc,             \* "off", "ready", "done"
    \* ---- discovery (discover_200_pri_arabic) ----
    text_files,           \* the files of data/ in the order iter_text_files yields them
    metadata_by_path,     \* the metadata index, in its iteration order
    target_works,         \* DEFAULT_TARGET_WORKS
    only_pri,             \* DEFAULT_ONLY_PRI
    discovered,           \* the list discovery returned
    disc_pc,              \* "off", "ready", "done"
    \* ---- store client handles (get_engine, get_opensearch, get_qdrant) ----
    client_global,        \* per getter: the module global (_engine / _client), 0 = None
    constructed,          \* per getter: how many clients were constructed
    returned,             \* per getter: the handles calls have returned
    th_pc,                \* per request thread: position inside a getter
    th_getter,            \* per request thread: the getter it is in
    th_new,               \* per request thread: the client it constructed
    \* ---- vector collection set-up (ensure_qdrant_collection) ----
    qd_collection,        \* the collection's configuration, or NoCollection
    model_dim,            \* output size of the loaded embedding model
    coll_pc,              \* "off", "idle", "loaded", "ensured", "upserted"
    coll_run,             \* number of runs started
    coll_created          \* number of create_collection calls

chunkVars == <<words, target, overlap, emitted, chunk_pc>>
normVars == <<text, before, norm_cfg, norm_side, applied>>
storeVars == <<authors, works, versions, ingest_state, chunks, os_index, qdrant>>
localVars == <<raw, gen, chunk_rows, os_docs, chunks_for_vectors, in_final, exc>>
ingestVars == <<corpus, storeVars, embeddings_enabled, pc, run_no, t_idx, localVars, faults>>
sanitizeVars == <<html_in, html_out, html_pc>>
facetVars == <<facet_labels, facet_aggs, facet_out, facet_pc>>
discoverVars == <<text_files, metadata_by_path, target_works, only_pri, discovered, disc_pc>>
clientVars == <<client_global, constructed, returned, th_pc, th_getter, th_new>>
collVars == <<qd_collection, model_dim, coll_pc, coll_run, coll_created>>
auxVars == <<sanitizeVars, facetVars, discoverVars, clientVars, collVars>>
searchVars == <<os_relevance, qd_similarity, hybrid_cfg, search_pc, req, resp, calls,
                embedding_cfg, embed_req, embed_resp, model_inputs>>

Min(a, b) == IF a < b THEN a ELSE b
Max(a, b) == IF a > b THEN a ELSE b

\* Sequences over S of length at most n.
SeqUpTo(S, n) == UNION {[1..k -> S] : k \in 0..n}

\* words[i:j] of Python (0-based, end exclusive, clipped to the list).
Slice(s, i, j) == SubSeq(s, Min(i, Len(s)) + 1, Min(j, Len(s)))

(***************************************************************************)
(* Chunker: run.py chunk_words                                             *)
(***************************************************************************)
MaxWords == 5
MaxTarget == 3
Tokens == {"a", "b"}

\* the step taken as the whole target, the overlap ignored
chunk_step_no_overlap(tgt, ovl) == tgt

\* step = target - overlap if target > overlap else target
chunk_step(tgt, ovl) == IF tgt > ovl THEN tgt - ovl ELSE tgt

\* The while loop of chunk_words: i is the start offset, chunk_index the
\* running index, acc the tuples yielded so far.
RECURSIVE chunk_loop(_, _, _, _, _, _)
chunk_loop(ws, tgt, step, i, chunk_index, acc) ==
    IF i < Len(ws)
    THEN LET j == Min(i + tgt, Len(ws))
         IN chunk_loop(ws, tgt, step, i + step, chunk_index + 1,
                Append(acc, [chunk_index |-> chunk_index, start |-> i,
                             wslice |-> Slice(ws, i, j)]))
    ELSE acc

\* chunk_words(words, target, overlap): the sequence of yielded tuples.
\* (target <= 0 raises ValueError; callers in the model keep target > 0.)
chunk_words(ws, tgt, ovl) == chunk_loop(ws, tgt, chunk_step(tgt, ovl), 0, 0, <<>>)

ChunkIdle ==
    /\ words = <<>>
    /\ target = 1
    /\ overlap = 0
    /\ emitted = <<>>
    /\ chunk_pc = "idle"

ChunkInputs ==
    /\ words \in SeqUpTo(Tokens, MaxWords)
    /\ target \in 1..MaxTarget
    /\ overlap \in 0..MaxTarget
    /\ emitted = <<>>
    /\ chunk_pc = "ready"

CallChunkWords ==
    /\ chunk_pc = "ready"
    /\ emitted' = chunk_words(words, target, overlap)
    /\ chunk_pc' = "done"
    /\ UNCHANGED <<words, target, overlap>>
    /\ UNCHANGED <<normVars, ingestVars, searchVars, auxVars>>

(***************************************************************************)
(* Normalizers: text_normalization.py (query side, config gated) and       *)
(* ingest/run.py (ingest side, no configuration).                          *)
(* A string is a sequence of code points; code points are named.           *)
(***************************************************************************)
MaxTextLen == 3

\* [\u064B-\u0652\u0670]: harakat and superscript alef
AR_DIACRITICS == {"U064B", "U064C", "U064D", "U064E", "U064F", "U0650",
                  "U0651", "U0652", "U0670"}
\* \u0640
TATWEEL == {"U0640"}
\* the code points \s matches among those the model draws
WHITESPACE == {"SPACE", "NEWLINE"}

\* CHAR_MAP (identical table in both modules)
CHAR_MAP ==
    [c \in {"U0671", "U0623", "U0625", "U0622", "U0649", "U0629", "U0624",
            "U0626", "U0643", "U064A"} |->
        CASE c = "U0671" -> "U0627"
          [] c = "U0623" -> "U0627"
          [] c = "U0625" -> "U0627"
          [] c = "U0622" -> "U0627"
          [] c = "U0649" -> "U064A"
          [] c = "U0629" -> "U0647"
          [] c = "U0624" -> "U0648"
          [] c = "U0626" -> "U064A"
          [] c = "U0643" -> "U06A9"
          [] c = "U064A" -> "U06CC"]

\* Code points the bounded inputs are drawn from: tatweel, a diacritic,
\* an alef variant, alef maksura and yeh (the two-step chain of CHAR_MAP),
\* kaf, an unmapped letter and two kinds of whitespace.
Alphabet == {"U0640", "U064E", "U0623", "U0649", "U064A", "U0628",
             "SPACE", "NEWLINE"}

ConfigKeys == {"remove_tatweel", "remove_diacritics", "normalize_alef_variants",
               "normalize_persian_kaf_ya", "normalize_hamza_conservative"}

\* RE.sub("", s): delete every code point of the class
RECURSIVE re_remove(_, _)
re_remove(s, class) ==
    IF s = <<>> THEN <<>>
    ELSE IF Head(s) \in class THEN re_remove(Tail(s), class)
         ELSE <<Head(s)>> \o re_remove(Tail(s), class)

\* s.translate(CHAR_MAP): one pass, each code point mapped once
translate(s) ==
    [i \in 1..Len(s) |-> IF s[i] \in DOMAIN CHAR_MAP THEN CHAR_MAP[s[i]] ELSE s[i]]

\* re.sub(r"\s+", " ", s): every whitespace run becomes one SPACE
RECURSIVE collapse_ws(_, _)
collapse_ws(s, inRun) ==
    IF s = <<>> THEN <<>>
    ELSE IF Head(s) \in WHITESPACE
         THEN (IF inRun THEN <<>> ELSE <<"SPACE">>) \o collapse_ws(Tail(s), TRUE)
         ELSE <<Head(s)>> \o collapse_ws(Tail(s), FALSE)

\* .strip() after the collapse: at most one SPACE at each end
strip(s) ==
    LET a == IF s # <<>> /\ Head(s) \in WHITESPACE THEN Tail(s) ELSE s
    IN IF a # <<>> /\ a[Len(a)] \in WHITESPACE THEN SubSeq(a, 1, Len(a) - 1) ELSE a

\* ingest/run.py normalize_arabic_script
ingest_normalize_arabic_script(s) ==
    LET s1 == re_remove(s, TATWEEL)
        s2 == re_remove(s1, AR_DIACRITICS)
        s3 == translate(s2)
    IN strip(collapse_ws(s3, FALSE))

\* the translation of the evaluation runner made twice over
eval_normalize_translate_twice(s) ==
    LET s1 == re_remove(s, TATWEEL)
        s2 == re_remove(s1, AR_DIACRITICS)
        s3 == translate(translate(s2))
    IN strip(collapse_ws(s3, FALSE))

\* eval/runner.py normalize_arabic_script (its own copy of the two
\* patterns and of CHAR_MAP, equal to the other two modules')
eval_normalize_arabic_script(s) ==
    LET s1 == re_remove(s, TATWEEL)
        s2 == re_remove(s1, AR_DIACRITICS)
        s3 == translate(s2)
    IN strip(collapse_ws(s3, FALSE))

\* text_normalization.py normalize_arabic_script; cfg is the "pipeline"
\* mapping, a missing key reads as True (cfg.get(k, True)).
ThreeGroupsAllOff(cfg) ==
    /\ ~cfg["normalize_alef_variants"]
    /\ ~cfg["normalize_persian_kaf_ya"]
    /\ ~cfg["normalize_hamza_conservative"]

normalize_arabic_script(s, cfg) ==
    LET s1 == IF cfg["remove_tatweel"] THEN re_remove(s, TATWEEL) ELSE s
        s2 == IF cfg["remove_diacritics"] THEN re_remove(s1, AR_DIACRITICS) ELSE s1
        s3 == IF ~ThreeGroupsAllOff(cfg) THEN translate(s2) ELSE s2
    IN strip(collapse_ws(s3, FALSE))

DefaultNormCfg == [k \in ConfigKeys |-> TRUE]

NormIdle ==
    /\ text = <<>>
    /\ before = <<>>
    /\ norm_cfg = DefaultNormCfg
    /\ norm_side = "query"
    /\ applied = 0

NormInputs ==
    /\ text \in SeqUpTo(Alphabet, MaxTextLen)
    /\ before = text
    /\ norm_side \in {"query", "ingest", "eval"}
    /\ norm_cfg \in [ConfigKeys -> BOOLEAN]
    /\ (norm_side \in {"ingest", "eval"} => norm_cfg = DefaultNormCfg)
    /\ applied = 0

\* The number of successive applications followed (normalize, then
\* normalize of the result).
MaxApplied == 2

NormalizeQuery ==
    /\ norm_side = "query"
    /\ applied < MaxApplied
    /\ before' = text
    /\ text' = normalize_arabic_script(text, norm_cfg)
    /\ applied' = applied + 1
    /\ UNCHANGED <<norm_cfg, norm_side>>
    /\ UNCHANGED <<chunkVars, ingestVars, searchVars, auxVars>>

NormalizeIngest ==
    /\ norm_side = "ingest"
    /\ applied < MaxApplied
    /\ before' = text
    /\ text' = ingest_normalize_arabic_script(text)
    /\ applied' = applied + 1
    /\ UNCHANGED <<norm_cfg, norm_side>>
    /\ UNCHANGED <<chunkVars, ingestVars, searchVars, auxVars>>

NormalizeEval ==
    /\ norm_side = "eval"
    /\ applied < MaxApplied
    /\ before' = text
    /\ text' = eval_normalize_arabic_script(text)
    /\ applied' = applied + 1
    /\ UNCHANGED <<norm_cfg, norm_side>>
    /\ UNCHANGED <<chunkVars, ingestVars, searchVars, auxVars>>

(***************************************************************************)
(* Ingestion: ingest/run.py run() and the store writers it calls.          *)
(* One action per store or file call of the per-document loop; each        *)
(* relational write is its own transaction (engine.begin()).               *)
(***************************************************************************)
MaxTokens == 3     \* largest document, in normalized tokens
MaxRuns == 2       \* runs of run() followed
MaxFaults == 1     \* store/IO calls allowed to raise in one behaviour

\* Small settings of the environment variables read at import.
CHUNK_TARGET_WORDS == 1
CHUNK_MAX_OVERLAP_WORDS == 0
OS_BULK_BATCH == 2

\* The texts discovery returns (version ids, in path order), with the ids
\* infer_ids_from_path derives for them.
DiscoveredTexts == <<"a1.w1.v1", "a1.w2.v1">>
Docs == {DiscoveredTexts[i] : i \in 1..Len(DiscoveredTexts)}
AuthorOf(v) == "a1"
WorkOf(v) == IF v = "a1.w1.v1" THEN "a1.w1" ELSE "a1.w2"

\* A file content is identified by its number of normalized tokens.  The
\* first document takes every content and is the one replaced between runs;
\* the second is an empty or a one-token file that stays as it is.
Contents == 0..MaxTokens
ContentsOf(v) == IF v = DiscoveredTexts[1] THEN Contents ELSE {0, 1}
EditedDocs == {DiscoveredTexts[1]}

NoInt == -1        \* SQL NULL in an integer column
NoId == <<>>       \* SQL NULL in a chunk id or checksum column
NoRaw == -1        \* raw not read yet
NullKey == "null"  \* None in a keyword field, a bucket key that is null

\* sha256_file(path): a digest that identifies the content
sha256_file(content) == <<"sha256", content>>

\* norm.split(" ") if norm else []: the normalized tokens of a content
DocWords(content) == [i \in 1..content |-> i]

\* f"{t.version_id}::{chunk_index}"
ChunkId(v, chunk_index) == <<v, chunk_index>>

\* qdrant_point_id as a per-upsert identifier instead of a digest of the
\* chunk id
qdrant_point_id_fresh(chunk_id) == <<"id", chunk_id, run_no>>

\* qdrant_point_id(chunk_id): first 8 bytes of sha256(chunk_id), a value
\* that depends on the chunk id alone
qdrant_point_id(chunk_id) == <<"sha256_8", chunk_id>>

NoVersion == [exists |-> FALSE, checksum |-> NoId, word_count |-> NoInt]
NoState == [exists |-> FALSE, status |-> "none", last_chunk_index |-> NoInt,
            error_message |-> ""]

\* upsert_version: every column is overwritten with EXCLUDED.*
upsert_version(tbl, v, checksum, word_count) ==
    [tbl EXCEPT ![v] = [exists |-> TRUE, checksum |-> checksum,
                        word_count |-> word_count]]

\* set_ingest_state: the INSERT branch writes version_id, status and
\* last_chunk_index only; the ON CONFLICT branch also writes error_message.
set_ingest_state(tbl, v, status, last_chunk_index, error_message) ==
    [tbl EXCEPT ![v] =
        IF tbl[v].exists
        THEN [exists |-> TRUE, status |-> status,
              last_chunk_index |-> last_chunk_index,
              error_message |-> error_message]
        ELSE [exists |-> TRUE, status |-> status,
              last_chunk_index |-> last_chunk_index,
              error_message |-> ""]]

\* upsert_chunks_batch whose ON CONFLICT branch leaves the link columns as
\* they are
upsert_chunks_batch_keep_links(tbl, rows) ==
    LET ids == {rows[i].chunk_id : i \in 1..Len(rows)}
        upd(old, i) == [old EXCEPT !.text_norm = rows[i].text_norm]
    IN {r \in tbl : r.chunk_id \notin ids}
       \cup {upd(r, i) : <<r, i>> \in {<<r, i>> \in tbl \X (1..Len(rows)) :
                                           r.chunk_id = rows[i].chunk_id}}
       \cup {rows[i] : i \in {i \in 1..Len(rows) :
                                \A r \in tbl : r.chunk_id # rows[i].chunk_id}}

\* upsert_chunks_batch: INSERT ... ON CONFLICT (chunk_id) DO UPDATE of the
\* text, heading and link columns (the links to EXCLUDED's, which are null).
upsert_chunks_batch(tbl, rows) ==
    LET ids == {rows[i].chunk_id : i \in 1..Len(rows)}
        new(i) == rows[i]
        upd(old, i) == [old EXCEPT !.text_norm = rows[i].text_norm,
                                   !.prev_chunk_id = rows[i].prev_chunk_id,
                                   !.next_chunk_id = rows[i].next_chunk_id]
    IN {r \in tbl : r.chunk_id \notin ids}
       \cup {upd(r, i) : <<r, i>> \in {<<r, i>> \in tbl \X (1..Len(rows)) :
                                           r.chunk_id = rows[i].chunk_id}}
       \cup {new(i) : i \in {i \in 1..Len(rows) :
                                \A r \in tbl : r.chunk_id # rows[i].chunk_id}}

\* The scalar subquery of set_chunk_links: the chunk_id of the row of the
\* same version with the given chunk_index, NULL when there is none.
NeighbourId(tbl, v, idx) ==
    IF \E r \in tbl : r.version_id = v /\ r.chunk_index = idx
    THEN (CHOOSE r \in tbl : r.version_id = v /\ r.chunk_index = idx).chunk_id
    ELSE NoId

\* set_chunk_links: UPDATE chunks SET prev = ..., next = ... WHERE version_id
set_chunk_links(tbl, v) ==
    {IF r.version_id = v
     THEN [r EXCEPT !.prev_chunk_id = NeighbourId(tbl, v, r.chunk_index - 1),
                    !.next_chunk_id = NeighbourId(tbl, v, r.chunk_index + 1)]
     ELSE r : r \in tbl}

\* os_bulk_index: one index action per document, keyed by _id = chunk_id
os_bulk_index(idx, docs) ==
    LET ids == {docs[i].chunk_id : i \in 1..Len(docs)}
    IN {d \in idx : d._id \notin ids}
       \cup {[_id |-> docs[i].chunk_id, chunk_id |-> docs[i].chunk_id,
              version_id |-> docs[i].version_id, content |-> docs[i].content,
              lang |-> docs[i].lang, is_pri |-> docs[i].is_pri,
              period |-> docs[i].period, region |-> docs[i].region,
              tags |-> docs[i].tags, version_label |-> docs[i].version_label]
             : i \in 1..Len(docs)}

\* model.encode(texts) of _embed_and_upsert: the vector of a chunk, held
\* as the input it was computed from: the chunk text as it stands, with
\* no role tag in front.
model_encode(txt) == [prefix |-> "", text |-> txt]

\* _embed_and_upsert + qdrant_upsert: one point per buffered chunk, keyed
\* by qdrant_point_id(chunk_id)
embed_and_upsert(coll, cfv) ==
    LET pts == {[id |-> qdrant_point_id(cfv[i].chunk_id),
                 chunk_id |-> cfv[i].chunk_id,
                 version_id |-> cfv[i].version_id,
                 chunk_index |-> cfv[i].chunk_index,
                 lang |-> cfv[i].lang, is_pri |-> cfv[i].is_pri,
                 vector |-> model_encode(cfv[i].text_norm)] : i \in 1..Len(cfv)}
        ids == {p.id : p \in pts}
    IN {p \in coll : p.id \notin ids} \cup pts

\* t of `for t in texts`
Cur == DiscoveredTexts[t_idx]

\* t.lang and t.is_pri of a discovered text
TextLang(v) == "ara"
TextIsPri(v) == v = "a1.w1.v1"

\* os_meta = meta or {}: the first text has an entry in the metadata index,
\* the second has none (get gives None, `or []` gives the empty list).
os_meta(v) ==
    IF v = "a1.w1.v1"
    THEN [period |-> "P1", region |-> {"R1"}, tags |-> {"T1"}, version_label |-> "L1"]
    ELSE [period |-> NullKey, region |-> {}, tags |-> {}, version_label |-> NullKey]

IngestInit ==
    /\ corpus \in {f \in [Docs -> Contents] : \A v \in Docs : f[v] \in ContentsOf(v)}
    /\ authors = {}
    /\ works = {}
    /\ versions = [v \in Docs |-> NoVersion]
    /\ ingest_state = [v \in Docs |-> NoState]
    /\ chunks = {}
    /\ os_index = {}
    /\ qdrant = {}
    /\ embeddings_enabled \in BOOLEAN
    /\ pc = "idle"
    /\ run_no = 0
    /\ t_idx = 0
    /\ raw = NoRaw
    /\ gen = <<>>
    /\ chunk_rows = <<>>
    /\ os_docs = <<>>
    /\ chunks_for_vectors = <<>>
    /\ in_final = FALSE
    /\ exc = ""
    /\ faults = 0

\* run() not running: the relational store empty, nothing under way
IngestQuiet ==
    /\ corpus = [v \in Docs |-> 0]
    /\ authors = {}
    /\ works = {}
    /\ versions = [v \in Docs |-> NoVersion]
    /\ ingest_state = [v \in Docs |-> NoState]
    /\ chunks = {}
    /\ embeddings_enabled = FALSE
    /\ pc = "off"
    /\ run_no = 0
    /\ t_idx = 0
    /\ raw = NoRaw
    /\ gen = <<>>
    /\ chunk_rows = <<>>
    /\ os_docs = <<>>
    /\ chunks_for_vectors = <<>>
    /\ in_final = FALSE
    /\ exc = ""
    /\ faults = 0

IngestIdle ==
    /\ IngestQuiet
    /\ os_index = {}
    /\ qdrant = {}

ResetLocals ==
    /\ raw' = NoRaw
    /\ gen' = <<>>
    /\ chunk_rows' = <<>>
    /\ os_docs' = <<>>
    /\ chunks_for_vectors' = <<>>
    /\ in_final' = FALSE
    /\ exc' = ""

\* The next iteration of `for t in texts`, or the end of run().
ContinueLoop ==
    /\ IF t_idx < Len(DiscoveredTexts)
       THEN t_idx' = t_idx + 1 /\ pc' = "upsert_author"
       ELSE t_idx' = 0 /\ pc' = "idle"
    /\ ResetLocals

\* run() up to the loop: discovery returns the texts and the first
\* iteration begins.
StartRun ==
    /\ pc \in {"idle", "aborted"}
    /\ run_no < MaxRuns
    /\ run_no' = run_no + 1
    /\ t_idx' = 1
    /\ pc' = "upsert_author"
    /\ ResetLocals
    /\ UNCHANGED <<corpus, storeVars, embeddings_enabled, faults>>
    /\ UNCHANGED <<chunkVars, normVars, searchVars, auxVars>>

\* A corpus file is replaced between two runs.
EditDocument ==
    /\ pc \in {"idle", "aborted"}
    /\ run_no >= 1
    /\ run_no < MaxRuns
    /\ \E v \in EditedDocs :
       \E c \in ContentsOf(v) :
          /\ c # corpus[v]
          /\ corpus' = [corpus EXCEPT ![v] = c]
    /\ UNCHANGED <<storeVars, embeddings_enabled, pc, run_no, t_idx, localVars, faults>>
    /\ UNCHANGED <<chunkVars, normVars, searchVars, auxVars>>

UpsertAuthor ==
    /\ pc = "upsert_author"
    /\ authors' = authors \cup {AuthorOf(Cur)}
    /\ pc' = "upsert_work"
    /\ UNCHANGED <<corpus, works, versions, ingest_state, chunks, os_index, qdrant,
                   embeddings_enabled, run_no, t_idx, localVars, faults>>
    /\ UNCHANGED <<chunkVars, normVars, searchVars, auxVars>>

UpsertWork ==
    /\ pc = "upsert_work"
    /\ works' = works \cup {WorkOf(Cur)}
    /\ pc' = "upsert_version"
    /\ UNCHANGED <<corpus, authors, versions, ingest_state, chunks, os_index, qdrant,
                   embeddings_enabled, run_no, t_idx, localVars, faults>>
    /\ UNCHANGED <<chunkVars, normVars, searchVars, auxVars>>

\* upsert_version(engine, t, checksum=None, word_count=None, char_count=None)
UpsertVersionFirst ==
    /\ pc = "upsert_version"
    /\ versions' = upsert_version(versions, Cur, NoId, NoInt)
    /\ pc' = "set_discovered"
    /\ UNCHANGED <<corpus, authors, works, ingest_state, chunks, os_index, qdrant,
                   embeddings_enabled, run_no, t_idx, localVars, faults>>
    /\ UNCHANGED <<chunkVars, normVars, searchVars, auxVars>>

SetDiscovered ==
    /\ pc = "set_discovered"
    /\ ingest_state' = set_ingest_state(ingest_state, Cur, "discovered", NoInt, "")
    /\ pc' = "read_file"
    /\ UNCHANGED <<corpus, authors, works, versions, chunks, os_index, qdrant,
                   embeddings_enabled, run_no, t_idx, localVars, faults>>
    /\ UNCHANGED <<chunkVars, normVars, searchVars, auxVars>>

\* raw = read_text_file(t.abs_path); checksum = sha256_file(t.abs_path)
ReadFile ==
    /\ pc = "read_file"
    /\ raw' = corpus[Cur]
    /\ pc' = "upsert_version_stats"
    /\ UNCHANGED <<corpus, storeVars, embeddings_enabled, run_no, t_idx, gen,
                   chunk_rows, os_docs, chunks_for_vectors, in_final, exc, faults>>
    /\ UNCHANGED <<chunkVars, normVars, searchVars, auxVars>>

UpsertVersionStats ==
    /\ pc = "upsert_version_stats"
    /\ versions' = upsert_version(versions, Cur, sha256_file(raw), raw)
    /\ pc' = "set_parsed"
    /\ UNCHANGED <<corpus, authors, works, ingest_state, chunks, os_index, qdrant,
                   embeddings_enabled, run_no, t_idx, localVars, faults>>
    /\ UNCHANGED <<chunkVars, normVars, searchVars, auxVars>>

SetParsed ==
    /\ pc = "set_parsed"
    /\ ingest_state' = set_ingest_state(ingest_state, Cur, "parsed", NoInt, "")
    /\ pc' = "chunk"
    /\ UNCHANGED <<corpus, authors, works, versions, chunks, os_index, qdrant,
                   embeddings_enabled, run_no, t_idx, localVars, faults>>
    /\ UNCHANGED <<chunkVars, normVars, searchVars, auxVars>>

\* normalize + chunk: no words -> failed and `continue`; otherwise the
\* buffers are created and the loop over chunk_words(...) begins.
\* the chunk loop entered without the check for an empty word list
NormalizeAndChunk_unchecked ==
    /\ pc = "chunk"
    /\ gen' = chunk_words(DocWords(raw), CHUNK_TARGET_WORDS, CHUNK_MAX_OVERLAP_WORDS)
    /\ chunk_rows' = <<>>
    /\ os_docs' = <<>>
    /\ chunks_for_vectors' = <<>>
    /\ pc' = "buffer"
    /\ UNCHANGED <<ingest_state, t_idx, raw, in_final, exc>>
    /\ UNCHANGED <<corpus, authors, works, versions, chunks, os_index, qdrant,
                   embeddings_enabled, run_no, faults>>
    /\ UNCHANGED <<chunkVars, normVars, searchVars, auxVars>>

NormalizeAndChunk ==
    /\ pc = "chunk"
    /\ IF DocWords(raw) = <<>>
       THEN /\ ingest_state' = set_ingest_state(ingest_state, Cur, "failed", NoInt,
                                                "empty text after normalization")
            /\ ContinueLoop
       ELSE /\ gen' = chunk_words(DocWords(raw), CHUNK_TARGET_WORDS, CHUNK_MAX_OVERLAP_WORDS)
            /\ chunk_rows' = <<>>
            /\ os_docs' = <<>>
            /\ chunks_for_vectors' = <<>>
            /\ pc' = "buffer"
            /\ UNCHANGED <<ingest_state, t_idx, raw, in_final, exc>>
    /\ UNCHANGED <<corpus, authors, works, versions, chunks, os_index, qdrant,
                   embeddings_enabled, run_no, faults>>
    /\ UNCHANGED <<chunkVars, normVars, searchVars, auxVars>>

\* One iteration of the loop over chunk_words: the row, the lexical
\* document and (with embeddings) the vector tuple are appended; a full
\* buffer starts the batch flush.
BufferChunk ==
    /\ pc = "buffer"
    /\ gen # <<>>
    /\ LET c == Head(gen)
           chunk_id == ChunkId(Cur, c.chunk_index)
           row == [chunk_id |-> chunk_id, version_id |-> Cur,
                   chunk_index |-> c.chunk_index, text_norm |-> c.wslice,
                   prev_chunk_id |-> NoId, next_chunk_id |-> NoId]
           doc == [chunk_id |-> chunk_id, version_id |-> Cur, content |-> c.wslice,
                   lang |-> TextLang(Cur), is_pri |-> TextIsPri(Cur),
                   period |-> os_meta(Cur).period, region |-> os_meta(Cur).region,
                   tags |-> os_meta(Cur).tags,
                   version_label |-> os_meta(Cur).version_label]
           payload == [chunk_id |-> chunk_id, version_id |-> Cur,
                       lang |-> TextLang(Cur), is_pri |-> TextIsPri(Cur),
                       chunk_index |-> c.chunk_index, text_norm |-> c.wslice]
       IN /\ chunk_rows' = Append(chunk_rows, row)
          /\ os_docs' = Append(os_docs, doc)
          /\ chunks_for_vectors' = IF embeddings_enabled
                                   THEN Append(chunks_for_vectors, payload)
                                   ELSE chunks_for_vectors
          /\ gen' = Tail(gen)
          /\ IF Len(chunk_rows) + 1 >= OS_BULK_BATCH
             THEN pc' = "flush_rows" /\ in_final' = FALSE
             ELSE pc' = "buffer" /\ in_final' = in_final
    /\ UNCHANGED <<corpus, storeVars, embeddings_enabled, run_no, t_idx, raw, exc, faults>>
    /\ UNCHANGED <<chunkVars, normVars, searchVars, auxVars>>

\* The loop is over: `if chunk_rows:` starts the final flush.
EndOfChunks ==
    /\ pc = "buffer"
    /\ gen = <<>>
    /\ IF chunk_rows # <<>>
       THEN pc' = "flush_rows" /\ in_final' = TRUE
       ELSE pc' = "set_links" /\ in_final' = in_final
    /\ UNCHANGED <<corpus, storeVars, embeddings_enabled, run_no, t_idx, raw, gen,
                   chunk_rows, os_docs, chunks_for_vectors, exc, faults>>
    /\ UNCHANGED <<chunkVars, normVars, searchVars, auxVars>>

FlushRows ==
    /\ pc = "flush_rows"
    /\ chunks' = upsert_chunks_batch(chunks, chunk_rows)
    /\ pc' = "flush_lexical"
    /\ UNCHANGED <<corpus, authors, works, versions, ingest_state, os_index, qdrant,
                   embeddings_enabled, run_no, t_idx, localVars, faults>>
    /\ UNCHANGED <<chunkVars, normVars, searchVars, auxVars>>

\* the bulk request carrying only the first document of the buffer
FlushLexical_first_doc_only ==
    /\ pc = "flush_lexical"
    /\ os_index' = os_bulk_index(os_index, SubSeq(os_docs, 1, 1))
    /\ pc' = "flush_state_bm25"
    /\ UNCHANGED <<corpus, authors, works, versions, ingest_state, chunks, qdrant,
                   embeddings_enabled, run_no, t_idx, localVars, faults>>
    /\ UNCHANGED <<chunkVars, normVars, searchVars, auxVars>>

FlushLexical ==
    /\ pc = "flush_lexical"
    /\ os_index' = os_bulk_index(os_index, os_docs)
    /\ pc' = "flush_state_bm25"
    /\ UNCHANGED <<corpus, authors, works, versions, ingest_state, chunks, qdrant,
                   embeddings_enabled, run_no, t_idx, localVars, faults>>
    /\ UNCHANGED <<chunkVars, normVars, searchVars, auxVars>>

\* What follows the last store call of a flush: the batch flush clears the
\* buffers and the loop goes on; the final flush leads to the link pass.
\* the batch flush going back to the loop with its buffers as they are
AfterFlush_keeps_buffers ==
    IF in_final
    THEN /\ pc' = "set_links"
         /\ UNCHANGED <<chunk_rows, os_docs, chunks_for_vectors>>
    ELSE /\ pc' = "buffer"
         /\ UNCHANGED <<chunk_rows, os_docs, chunks_for_vectors>>

AfterFlush ==
    IF in_final
    THEN /\ pc' = "set_links"
         /\ UNCHANGED <<chunk_rows, os_docs, chunks_for_vectors>>
    ELSE /\ pc' = "buffer"
         /\ chunk_rows' = <<>>
         /\ os_docs' = <<>>
         /\ chunks_for_vectors' = <<>>

FlushStateBm25 ==
    /\ pc = "flush_state_bm25"
    /\ ingest_state' = set_ingest_state(ingest_state, Cur, "indexed_bm25",
                           chunk_rows[Len(chunk_rows)].chunk_index, "")
    /\ IF embeddings_enabled /\ chunks_for_vectors # <<>>
       THEN /\ pc' = "flush_vector"
            /\ UNCHANGED <<chunk_rows, os_docs, chunks_for_vectors>>
       ELSE AfterFlush
    /\ UNCHANGED <<corpus, authors, works, versions, chunks, os_index, qdrant,
                   embeddings_enabled, run_no, t_idx, raw, gen, in_final, exc, faults>>
    /\ UNCHANGED <<chunkVars, normVars, searchVars, auxVars>>

FlushVector ==
    /\ pc = "flush_vector"
    /\ qdrant' = embed_and_upsert(qdrant, chunks_for_vectors)
    /\ pc' = "flush_state_embedded"
    /\ UNCHANGED <<corpus, authors, works, versions, ingest_state, chunks, os_index,
                   embeddings_enabled, run_no, t_idx, localVars, faults>>
    /\ UNCHANGED <<chunkVars, normVars, searchVars, auxVars>>

FlushStateEmbedded ==
    /\ pc = "flush_state_embedded"
    /\ ingest_state' = set_ingest_state(ingest_state, Cur, "embedded",
                           chunk_rows[Len(chunk_rows)].chunk_index, "")
    /\ AfterFlush
    /\ UNCHANGED <<corpus, authors, works, versions, chunks, os_index, qdrant,
                   embeddings_enabled, run_no, t_idx, raw, gen, in_final, exc, faults>>
    /\ UNCHANGED <<chunkVars, normVars, searchVars, auxVars>>

SetChunkLinks ==
    /\ pc = "set_links"
    /\ chunks' = set_chunk_links(chunks, Cur)
    /\ pc' = "set_complete"
    /\ UNCHANGED <<corpus, authors, works, versions, ingest_state, os_index, qdrant,
                   embeddings_enabled, run_no, t_idx, localVars, faults>>
    /\ UNCHANGED <<chunkVars, normVars, searchVars, auxVars>>

SetComplete ==
    /\ pc = "set_complete"
    /\ ingest_state' = set_ingest_state(ingest_state, Cur, "complete", NoInt, "")
    /\ ContinueLoop
    /\ UNCHANGED <<corpus, authors, works, versions, chunks, os_index, qdrant,
                   embeddings_enabled, run_no, faults>>
    /\ UNCHANGED <<chunkVars, normVars, searchVars, auxVars>>

\* The positions of the try body at which a store or file call is made.
\* (At "chunk" the only call is the set_ingest_state of the empty branch.)
CallSites == {"upsert_author", "upsert_work", "upsert_version", "set_discovered",
              "read_file", "upsert_version_stats", "set_parsed",
              "flush_rows", "flush_lexical", "flush_state_bm25", "flush_vector",
              "flush_state_embedded", "set_links", "set_complete"}

\* The call at the current position raises: its transaction has no effect
\* and control passes to the except clause.
CallRaises ==
    /\ \/ pc \in CallSites
       \/ pc = "chunk" /\ DocWords(raw) = <<>>
    /\ faults < MaxFaults
    /\ faults' = faults + 1
    /\ exc' = pc
    /\ pc' = "except"
    /\ UNCHANGED <<corpus, storeVars, embeddings_enabled, run_no, t_idx, raw, gen,
                   chunk_rows, os_docs, chunks_for_vectors, in_final>>
    /\ UNCHANGED <<chunkVars, normVars, searchVars, auxVars>>

\* except Exception as e: set_ingest_state(..., "failed", error_message=str(e)).
\* ingest_state.version_id references versions(version_id): without the
\* Version row the INSERT raises inside the handler and leaves run().
HandleException ==
    /\ pc = "except"
    /\ IF versions[Cur].exists
       THEN /\ ingest_state' = set_ingest_state(ingest_state, Cur, "failed", NoInt, exc)
            /\ ContinueLoop
       ELSE /\ pc' = "aborted"
            /\ t_idx' = 0
            /\ ResetLocals
            /\ UNCHANGED ingest_state
    /\ UNCHANGED <<corpus, authors, works, versions, chunks, os_index, qdrant,
                   embeddings_enabled, run_no, faults>>
    /\ UNCHANGED <<chunkVars, normVars, searchVars, auxVars>>

NextIdem ==
    \/ StartRun
    \/ UpsertAuthor \/ UpsertWork \/ UpsertVersionFirst \/ SetDiscovered
    \/ ReadFile \/ UpsertVersionStats \/ SetParsed
    \/ NormalizeAndChunk \/ BufferChunk \/ EndOfChunks
    \/ FlushRows \/ FlushLexical \/ FlushStateBm25 \/ FlushVector \/ FlushStateEmbedded
    \/ SetChunkLinks \/ SetComplete
    \/ CallRaises \/ HandleException

Next == NextIdem \/ EditDocument

(***************************************************************************)
(* Query engine: main.py search() with the client calls it makes           *)
(* (clients/opensearch_client.py, clients/qdrant_client.py).  The handler  *)
(* reads the lexical index and the vector collection and writes nothing.   *)
(* Of the filterable fields the model carries is_pri (a term filter) and   *)
(* lang (a terms filter); period, region, tags and version_label are       *)
(* further terms filters built by the same clauses.                        *)
(***************************************************************************)
MaxPage == 2       \* largest page requested
MaxSize == 3       \* largest page size requested

ChunkIds == {"A", "B", "C"}
Langs == {"ara", "fas"}
Modes == {"bm25", "vector", "hybrid"}

\* Permutations of a finite set, and the duplicate-free sequences over it.
Perms(S) == {f \in [1..Cardinality(S) -> S] :
                \A i, j \in 1..Cardinality(S) : i # j => f[i] # f[j]}
NoDupSeqs(S) == UNION {Perms(T) : T \in SUBSET S}
Range(s) == {s[i] : i \in 1..Len(s)}

\* Scores are exact rationals <<numerator, denominator>>.  The handler
\* computes them in binary floating point; distinct sums of two reciprocals
\* of integers below 2000 differ by more than 1e-13, far above the rounding
\* error, so the float order is the rational order.
RatAdd(a, b) == <<a[1] * b[2] + b[1] * a[2], a[2] * b[2]>>
RatGeq(a, b) == a[1] * b[2] >= b[1] * a[2]
RatEq(a, b) == a[1] * b[2] = b[1] * a[2]

\* The filter fields ingestion stores with each chunk.
ChunkMeta == [c \in ChunkIds |->
                [is_pri |-> c # "C", lang |-> IF c = "B" THEN "fas" ELSE "ara"]]
\* Payload fields of a collection upserted before a metadata change.
StaleMeta == [ChunkMeta EXCEPT !["C"].is_pri = TRUE]

\* Documents of the lexical index (_id = chunk_id) and points of the vector
\* collection (payload fields) for a set of chunk ids.
OsDocsOf(S) == {[_id |-> c, chunk_id |-> c, is_pri |-> ChunkMeta[c].is_pri,
                 lang |-> ChunkMeta[c].lang] : c \in S}
QdPointsOf(S, meta) == {[chunk_id |-> c, is_pri |-> meta[c].is_pri,
                         lang |-> meta[c].lang] : c \in S}

\* int(cfg.get(key, default)): NoInt stands for a key the config omits
CfgGet(v, default) == IF v = NoInt THEN default ELSE v

EmptyHybridCfg == [min |-> NoInt, max |-> NoInt,
                   multiplier_per_page_size |-> NoInt, rrf_k |-> NoInt]
SmallPoolCfg == [min |-> 1, max |-> 2, multiplier_per_page_size |-> 1, rrf_k |-> 1]

\* _candidate_k(page, size)
\* the pool size with the ceiling left out
_candidate_k_no_ceiling(page, size) ==
    LET mult == CfgGet(hybrid_cfg.multiplier_per_page_size, 5)
        floor == CfgGet(hybrid_cfg.min, 100)
    IN Max(floor, page * size * mult)

_candidate_k(page, size) ==
    LET mult == CfgGet(hybrid_cfg.multiplier_per_page_size, 5)
        floor == CfgGet(hybrid_cfg.min, 100)
        ceiling == CfgGet(hybrid_cfg.max, 1000)
    IN Max(floor, Min(ceiling, page * size * mult))

\* _rrf_k()
_rrf_k == CfgGet(hybrid_cfg.rrf_k, 60)

\* The filter clauses bm25_search, filter_chunk_ids, vector_search and
\* vector_count build: `if pri_only` a term on is_pri, `if langs` a terms
\* clause on lang (langs = {} stands for None).
PassesFilters(fields, langs, pri_only) ==
    /\ pri_only => fields.is_pri
    /\ langs # {} => fields.lang \in langs

OsDoc(id) == CHOOSE d \in os_index : d._id = id
QdPoint(id) == CHOOSE p \in qdrant : p.chunk_id = id

\* The five facet dimensions, and the order of the lang keys.
FacetDims == {"period", "region", "tags", "lang", "version"}
LangKeyOrder == <<"ara", "fas">>
KeyRank(l) == CHOOSE i \in 1..Len(LangKeyOrder) : LangKeyOrder[i] = l

\* A terms aggregation: one bucket per key with documents, the larger
\* count first and equal counts by key.
TermsBuckets(counts) ==
    LET present == {l \in DOMAIN counts : counts[l] > 0}
        p == CHOOSE f \in Perms(present) :
                 \A i, j \in 1..Cardinality(present) :
                     i < j => \/ counts[f[i]] > counts[f[j]]
                              \/ /\ counts[f[i]] = counts[f[j]]
                                 /\ KeyRank(f[i]) < KeyRank(f[j])
    IN [i \in 1..Cardinality(present) |-> [key |-> p[i], doc_count |-> counts[p[i]]]]

\* bm25_search: the documents matching q that pass the filters, best first,
\* cut to [from_, from_ + size); hits.total counts all of them; the terms
\* aggregations are computed over all of them when asked for (the indexed
\* documents carry a lang and no period, region, tags or version label).
bm25_search(size, from_, langs, pri_only, include_aggs) ==
    LET n == Len(os_relevance)
        ranked == [i \in 1..n |-> [_id |-> os_relevance[i],
                                   _score |-> <<n + 1 - i, 1>>,
                                   _source |-> OsDoc(os_relevance[i])]]
        Test(h) == PassesFilters(h._source, langs, pri_only)
        matched == SelectSeq(ranked, Test)
        count(l) == Cardinality({i \in 1..Len(matched) : matched[i]._source.lang = l})
    IN [hits |-> Slice(matched, from_, from_ + size),
        total |-> Len(matched),
        aggregations |-> IF include_aggs
                         THEN [dim \in FacetDims |->
                                  IF dim = "lang" THEN TermsBuckets([l \in Langs |-> count(l)])
                                  ELSE <<>>]
                         ELSE <<>>]

\* fetch_sources_by_chunk_ids: _source of the indexed documents among the ids
fetch_sources_by_chunk_ids(chunk_ids) ==
    {d \in os_index : d.chunk_id \in Range(chunk_ids)}

\* filter_chunk_ids: the ids among chunk_ids whose document passes the filters
filter_chunk_ids(chunk_ids, langs, pri_only) ==
    {d.chunk_id : d \in {d \in os_index : /\ d.chunk_id \in Range(chunk_ids)
                                          /\ PassesFilters(d, langs, pri_only)}}

\* vector_search: the points whose payload passes the filters, nearest
\* first, cut to [offset, offset + limit)
vector_search(limit, offset, langs, pri_only) ==
    LET n == Len(qd_similarity)
        ranked == [i \in 1..n |-> [chunk_id |-> qd_similarity[i],
                                   score |-> <<n + 1 - i, n + 1>>,
                                   payload |-> QdPoint(qd_similarity[i])]]
        Test(h) == PassesFilters(h.payload, langs, pri_only)
    IN Slice(SelectSeq(ranked, Test), offset, offset + limit)

\* vector_count: the number of points whose payload passes the filters
vector_count(langs, pri_only) ==
    Cardinality({p \in qdrant : PassesFilters(p, langs, pri_only)})

\* SearchHit and SearchResponse; an HTTP error carries its status only.
SearchHit(chunk_id, score, source, highlight) ==
    [chunk_id |-> chunk_id, score |-> score, source |-> source,
     highlight |-> highlight]
SearchResponse(r, effective_mode, warnings, total, results, facets) ==
    [status |-> 200, requested_mode |-> r.mode, effective_mode |-> effective_mode,
     warnings |-> warnings, total |-> total, page |-> r.page, size |-> r.size,
     results |-> results, facets |-> facets]
ErrorResponse(status) ==
    [status |-> status, requested_mode |-> "", effective_mode |-> "",
     warnings |-> <<>>, total |-> 0, page |-> 0, size |-> 0,
     results |-> <<>>, facets |-> <<>>]
NoResponse == ErrorResponse(0)

\* One collaborator call of the handler, with whether it raised.
Call(fn, size, from_, raised) ==
    [fn |-> fn, size |-> size, from_ |-> from_, raised |-> raised]
Outcome(response, made) == [resp |-> response, calls |-> made]

FacetBucket(key, label, count) == [key |-> key, label |-> label, count |-> count]

\* the label looked up in the table, nothing when the table has no entry
_label_for_table_only(facet, key) ==
    IF <<facet, key>> \in DOMAIN facet_labels THEN facet_labels[<<facet, key>>] ELSE ""

\* _label_for: labels.get(facet, {}).get(key, key)
_label_for(facet, key) ==
    IF <<facet, key>> \in DOMAIN facet_labels THEN facet_labels[<<facet, key>>] ELSE key

\* _build_facets: for each of the five dimensions the buckets of the
\* aggregation (none when the dimension is absent), those with a null key
\* left out, each as a FacetBucket; a missing doc_count counts 0.
_build_facets(aggs) ==
    [dim \in FacetDims |->
        LET buckets == IF dim \in DOMAIN aggs THEN aggs[dim] ELSE <<>>
            HasKey(b) == b.key # NullKey
            kept == SelectSeq(buckets, HasKey)
        IN [i \in 1..Len(kept) |->
               FacetBucket(kept[i].key, _label_for(dim, kept[i].key),
                           IF kept[i].doc_count = NoInt THEN 0 ELSE kept[i].doc_count)]]

\* The SearchHit list built from lexical hits (bm25 mode and the fallback).
LexicalResults(hits) ==
    [i \in 1..Len(hits) |->
        SearchHit(hits[i]._source.chunk_id, hits[i]._score, hits[i]._source, TRUE)]

\* mode == "bm25" (lines 188-227)
search_bm25(r, env) ==
    LET from_ == (r.page - 1) * r.size
        raised == env.os_raise_at = 1
        made == <<Call("bm25_search", r.size, from_, raised)>>
        os_res == bm25_search(r.size, from_, r.langs, r.pri_only, TRUE)
    IN IF raised
       THEN Outcome(ErrorResponse(500), made)
       ELSE Outcome(SearchResponse(r, r.mode, <<>>, os_res.total,
                                   LexicalResults(os_res.hits),
                                   _build_facets(os_res.aggregations)), made)

\* mode == "vector" (lines 230-292): a vector-store exception becomes 503,
\* the hits are re-checked by filter_chunk_ids and hydrated from the index.
search_vector(r, env) ==
    LET from_ == (r.page - 1) * r.size
        c1 == <<Call("encode_texts", NoInt, NoInt, env.embed_raises)>>
        vs_raised == env.qd_raise_at = 1
        c2 == Append(c1, Call("vector_search", r.size, from_, vs_raised))
        vc_raised == env.qd_raise_at = 2
        c3 == Append(c2, Call("vector_count", NoInt, NoInt, vc_raised))
        vhits0 == vector_search(r.size, from_, r.langs, r.pri_only)
        total == vector_count(r.langs, r.pri_only)
        ids == [i \in 1..Len(vhits0) |-> vhits0[i].chunk_id]
        fc_called == ids # <<>>
        fc_raised == fc_called /\ env.os_raise_at = 1
        c4 == IF fc_called
              THEN Append(c3, Call("filter_chunk_ids", Len(ids), NoInt, fc_raised))
              ELSE c3
        allowed == filter_chunk_ids(ids, r.langs, r.pri_only)
        Kept(h) == h.chunk_id \in allowed
        vhits == IF fc_called THEN SelectSeq(vhits0, Kept) ELSE vhits0
        fs_called == vhits # <<>>
        fs_raised == fs_called /\ env.os_raise_at = 2
        c5 == IF fs_called
              THEN Append(c4, Call("fetch_sources_by_chunk_ids", Len(vhits), NoInt,
                                   fs_raised))
              ELSE c4
        sources == fetch_sources_by_chunk_ids([i \in 1..Len(vhits) |-> vhits[i].chunk_id])
        src(h) == IF \E d \in sources : d.chunk_id = h.chunk_id
                  THEN CHOOSE d \in sources : d.chunk_id = h.chunk_id
                  ELSE h.payload
        results == [i \in 1..Len(vhits) |->
                      SearchHit(vhits[i].chunk_id, vhits[i].score, src(vhits[i]), FALSE)]
    IN IF env.embed_raises THEN Outcome(ErrorResponse(500), c1)
       ELSE IF vs_raised THEN Outcome(ErrorResponse(503), c2)
       ELSE IF vc_raised THEN Outcome(ErrorResponse(503), c3)
       ELSE IF fc_raised THEN Outcome(ErrorResponse(500), c4)
       ELSE IF fs_raised THEN Outcome(ErrorResponse(500), c5)
       ELSE Outcome(SearchResponse(r, r.mode, <<>>, total, results, {}), c5)

\* the except block answering from the candidate hits already fetched
\* instead of querying again at the requested page and size
hybrid_fallback_from_candidates(r, env, made) ==
    LET bm25_res == bm25_search(_candidate_k(r.page, r.size), 0, r.langs, r.pri_only, FALSE)
    IN Outcome(SearchResponse(r, "bm25", <<"qdrant_unavailable_fallback_bm25">>,
                              bm25_res.total, LexicalResults(bm25_res.hits),
                              _build_facets(bm25_res.aggregations)), made)

\* The except block of hybrid mode (lines 335-377): a second lexical query
\* at the requested page and size, answered as bm25.
hybrid_fallback(r, env, made) ==
    LET from_ == (r.page - 1) * r.size
        raised == env.os_raise_at = 2
        c == Append(made, Call("bm25_search", r.size, from_, raised))
        page_res == bm25_search(r.size, from_, r.langs, r.pri_only, TRUE)
    IN IF raised
       THEN Outcome(ErrorResponse(500), c)
       ELSE Outcome(SearchResponse(r, "bm25", <<"qdrant_unavailable_fallback_bm25">>,
                                   page_res.total, LexicalResults(page_res.hits),
                                   _build_facets(page_res.aggregations)), c)

\* the term of one list taken with a 0-based rank
rrf_term_zero_based(rrf_k, rank) == <<1, rrf_k + rank - 1>>

\* 1.0 / (rrf_k + r)
rrf_term(rrf_k, rank) == <<1, rrf_k + rank>>

\* {id: i for i, h in enumerate(hits, start=1)}: the rank of an id in a list
\* of ids without duplicates, NoInt when absent (dict.get returning None)
RankIn(ids, cid) ==
    IF cid \in Range(ids) THEN CHOOSE i \in 1..Len(ids) : ids[i] = cid ELSE NoInt

\* The fused score of one id (lines 390-397): s = 0.0, plus one term per
\* list that holds the id.
rrf_score(rb, rv) ==
    LET s0 == <<0, 1>>
        s1 == IF rb # NoInt THEN RatAdd(s0, rrf_term(_rrf_k, rb)) ELSE s0
    IN IF rv # NoInt THEN RatAdd(s1, rrf_term(_rrf_k, rv)) ELSE s1

\* fused.sort(key=score, reverse=True) over the ids of a set: the sort is
\* stable and the set is iterated in hash order, so ids of equal score come
\* out in any order.
SortedFused(all_ids, score) ==
    {f \in Perms(all_ids) :
        \A i, j \in 1..Len(f) : i < j => RatGeq(score[f[i]], score[f[j]])}

\* Hybrid mode (lines 294-429): the outcomes the handler can produce for a
\* request, one per order the sort can leave tied ids in.
search_hybrid(r, env) ==
    LET from_ == (r.page - 1) * r.size
        candidate_k == _candidate_k(r.page, r.size)
        c1 == <<Call("encode_texts", NoInt, NoInt, env.embed_raises)>>
        b_raised == env.os_raise_at = 1
        c2 == Append(c1, Call("bm25_search", candidate_k, 0, b_raised))
        bm25_res == bm25_search(candidate_k, 0, r.langs, r.pri_only, FALSE)
        bm25_hits == bm25_res.hits
        bm25_total == bm25_res.total
        vs_raised == env.qd_raise_at = 1
        c3 == Append(c2, Call("vector_search", candidate_k, 0, vs_raised))
        vc_raised == env.qd_raise_at = 2
        c4 == Append(c3, Call("vector_count", NoInt, NoInt, vc_raised))
        vec_hits == vector_search(candidate_k, 0, r.langs, r.pri_only)
        vec_total == vector_count(r.langs, r.pri_only)
        \* True RRF fusion
        bm25_ids == [i \in 1..Len(bm25_hits) |-> bm25_hits[i]._source.chunk_id]
        vec_ids == [i \in 1..Len(vec_hits) |-> vec_hits[i].chunk_id]
        all_ids == Range(bm25_ids) \cup Range(vec_ids)
        score == [cid \in all_ids |->
                    rrf_score(RankIn(bm25_ids, cid), RankIn(vec_ids, cid))]
        total == Max(bm25_total, vec_total)
        fused_outcome(fused) ==
            LET page_fused == Slice(fused, from_, from_ + r.size)
                fs_called == page_fused # <<>>
                fs_raised == fs_called /\ env.os_raise_at = 2
                c5 == IF fs_called
                      THEN Append(c4, Call("fetch_sources_by_chunk_ids",
                                           Len(page_fused), NoInt, fs_raised))
                      ELSE c4
                source_map == fetch_sources_by_chunk_ids(page_fused)
                src(cid) == IF \E d \in source_map : d.chunk_id = cid
                            THEN CHOOSE d \in source_map : d.chunk_id = cid
                            ELSE QdPoint(cid)
                results == [i \in 1..Len(page_fused) |->
                              SearchHit(page_fused[i], score[page_fused[i]],
                                        src(page_fused[i]),
                                        page_fused[i] \in Range(bm25_ids))]
            IN IF fs_raised
               THEN Outcome(ErrorResponse(500), c5)
               ELSE Outcome(SearchResponse(r, r.mode, <<>>, total, results, {}), c5)
    IN IF env.embed_raises THEN {Outcome(ErrorResponse(500), c1)}
       ELSE IF b_raised THEN {Outcome(ErrorResponse(500), c2)}
       ELSE IF vs_raised THEN {hybrid_fallback(r, env, c3)}
       ELSE IF vc_raised THEN {hybrid_fallback(r, env, c4)}
       ELSE {fused_outcome(fused) : fused \in SortedFused(all_ids, score)}

\* search(): the length check (lines 171-173), then the branch of the mode
search(r, env) ==
    IF r.q_too_long THEN {Outcome(ErrorResponse(400), <<>>)}
    ELSE IF r.mode = "bm25" THEN {search_bm25(r, env)}
    ELSE IF r.mode = "vector" THEN {search_vector(r, env)}
    ELSE search_hybrid(r, env)

MaxTexts == 3      \* largest batch of texts sent to /embed

EmptyEmbeddingCfg == [max_batch_size |-> NoInt]
SmallBatchCfg == [max_batch_size |-> 2]

\* _max_batch_size()
_max_batch_size == CfgGet(embedding_cfg.max_batch_size, 32)

\* A text is carried as its length class: "ok" is within
\* _max_query_len(), "long" exceeds it.
TextKinds == {"ok", "long"}

\* _prefixed_text: the normalized text behind the tag of its role
_prefixed_text(txt, input_type) ==
    [prefix |-> IF input_type = "query" THEN "query: " ELSE "passage: ",
     text |-> txt]

\* encode_texts: what model.encode receives
encode_texts(texts, input_type) ==
    [i \in 1..Len(texts) |-> _prefixed_text(texts[i], input_type)]

EmbedResponse(status, vectors) == [status |-> status, vectors |-> vectors]
NoEmbedRequest == [texts |-> <<>>, input_type |-> ""]

\* embed() without the check of the batch size
embed_without_batch_check(payload, env) ==
    LET texts == payload.texts
        made == <<Call("encode_texts", Len(texts), NoInt, env.embed_raises)>>
    IN IF texts = <<>> THEN Outcome(EmbedResponse(400, 0), <<>>)
       ELSE IF \E i \in 1..Len(texts) : texts[i] = "long"
       THEN Outcome(EmbedResponse(400, 0), <<>>)
       ELSE IF env.embed_raises THEN Outcome(EmbedResponse(500, 0), made)
       ELSE Outcome(EmbedResponse(200, Len(texts)), made)

\* embed(): POST /embed (lines 135-155): the three checks, then one
\* encode_texts call for the whole batch.
embed(payload, env) ==
    LET texts == payload.texts
        made == <<Call("encode_texts", Len(texts), NoInt, env.embed_raises)>>
    IN IF texts = <<>> THEN Outcome(EmbedResponse(400, 0), <<>>)
       ELSE IF Len(texts) > _max_batch_size THEN Outcome(EmbedResponse(400, 0), <<>>)
       ELSE IF \E i \in 1..Len(texts) : texts[i] = "long"
       THEN Outcome(EmbedResponse(400, 0), <<>>)
       ELSE IF env.embed_raises THEN Outcome(EmbedResponse(500, 0), made)
       ELSE Outcome(EmbedResponse(200, Len(texts)), made)

\* The /embed requests served: up to MaxTexts texts under either role.
EmbedRequests == [texts : SeqUpTo(TextKinds, MaxTexts), input_type : {"query", "passage"}]

\* The requests served: any mode, page and size with or without filters.
Requests ==
    [mode : Modes, page : 1..MaxPage, size : 1..MaxSize,
     langs : {{}, {"ara"}}, pri_only : BOOLEAN, q_too_long : BOOLEAN]

\* What the collaborators do during a request: the embedding provider
\* raises or not, and the n-th call to the lexical store and to the vector
\* store raises (0: none does).  A request makes at most two calls to each
\* store and none after one has raised, and no store call at all once the
\* embedding call has raised.
Envs ==
    {e \in [embed_raises : BOOLEAN, os_raise_at : 0..2, qd_raise_at : 0..2] :
        e.embed_raises => (e.os_raise_at = 0 /\ e.qd_raise_at = 0)}

\* No collaborator raises.
QuietEnv == [embed_raises |-> FALSE, os_raise_at |-> 0, qd_raise_at |-> 0]

\* Stores as ingestion can leave them: any subset of the chunks indexed, any
\* subset embedded, any relevance order of the documents matching q and any
\* similarity order of the points.
SearchInit ==
    /\ os_index \in {OsDocsOf(S) : S \in SUBSET ChunkIds}
    /\ qdrant \in {QdPointsOf(S, m) : S \in SUBSET ChunkIds, m \in {ChunkMeta, StaleMeta}}
    /\ os_relevance \in NoDupSeqs({d._id : d \in os_index})
    /\ qd_similarity \in Perms({p.chunk_id : p \in qdrant})
    \* search_runtime.yml is absent or sets both sections
    /\ hybrid_cfg \in {EmptyHybridCfg, SmallPoolCfg}
    /\ embedding_cfg = IF hybrid_cfg = EmptyHybridCfg
                       THEN EmptyEmbeddingCfg ELSE SmallBatchCfg
    /\ search_pc = "ready"
    /\ req = [mode |-> "", page |-> 0, size |-> 0, langs |-> {},
              pri_only |-> FALSE, q_too_long |-> FALSE]
    /\ resp = NoResponse
    /\ calls = <<>>
    /\ embed_req = NoEmbedRequest
    /\ embed_resp = EmbedResponse(0, 0)
    /\ model_inputs = <<>>

SearchIdle ==
    /\ os_relevance = <<>>
    /\ qd_similarity = <<>>
    /\ hybrid_cfg = EmptyHybridCfg
    /\ search_pc = "off"
    /\ req = [mode |-> "", page |-> 0, size |-> 0, langs |-> {},
              pri_only |-> FALSE, q_too_long |-> FALSE]
    /\ resp = NoResponse
    /\ calls = <<>>
    /\ embedding_cfg = EmptyEmbeddingCfg
    /\ embed_req = NoEmbedRequest
    /\ embed_resp = EmbedResponse(0, 0)
    /\ model_inputs = <<>>

\* GET /search: one request served from start to response.
Search ==
    /\ search_pc = "ready"
    /\ \E r \in Requests, env \in Envs :
         \* a rejected request reaches no collaborator: one env stands for all
         /\ r.q_too_long => env = QuietEnv
         \* a lexical request reaches neither the embedding provider nor the
         \* vector store
         /\ r.mode = "bm25" => (~env.embed_raises /\ env.qd_raise_at = 0)
         /\ \E out \in search(r, env) :
            /\ req' = r
            /\ resp' = out.resp
            /\ calls' = out.calls
            \* query_vector = encode_texts([q], "query")[0]
            /\ model_inputs' = IF out.calls # <<>> /\ out.calls[1].fn = "encode_texts"
                               THEN encode_texts(<<"ok">>, "query")
                               ELSE <<>>
    /\ search_pc' = "done"
    /\ UNCHANGED <<os_relevance, qd_similarity, hybrid_cfg>>
    /\ UNCHANGED <<embedding_cfg, embed_req, embed_resp>>
    /\ UNCHANGED <<chunkVars, normVars, ingestVars, auxVars>>

\* POST /embed: one request served from start to response.
Embed ==
    /\ search_pc = "ready"
    /\ \E payload \in EmbedRequests, raises \in BOOLEAN :
         LET out == embed(payload, [QuietEnv EXCEPT !.embed_raises = raises])
         IN /\ embed_req' = payload
            /\ embed_resp' = out.resp
            /\ calls' = out.calls
            /\ model_inputs' = IF out.calls # <<>>
                               THEN encode_texts(payload.texts, payload.input_type)
                               ELSE <<>>
    /\ search_pc' = "embed_done"
    /\ UNCHANGED <<os_relevance, qd_similarity, hybrid_cfg, req, resp, embedding_cfg>>
    /\ UNCHANGED <<chunkVars, normVars, ingestVars, auxVars>>

(***************************************************************************)
(* Highlight sanitizer (apps/api/app/sanitize.py).  A fragment is a        *)
(* sequence of one-character strings.                                      *)
(***************************************************************************)
MaxHtmlLen == 4

HtmlAlphabet == {"<", ">", "/", " ", "b", "e", "m", "E"}

\* [a-zA-Z0-9]
IsAlnum(c) == c \in {"b", "e", "m", "E"}
\* \s
IsSpace(c) == c = " "
\* str.lower on one character
Lower(c) == IF c = "E" THEN "e" ELSE c

\* The last index of the run of [a-zA-Z0-9] that starts at i (i - 1 when
\* the run is empty): the greedy ([a-zA-Z0-9]+).
RECURSIVE NameEnd(_, _)
NameEnd(s, i) ==
    IF i <= Len(s) /\ IsAlnum(s[i]) THEN NameEnd(s, i + 1) ELSE i - 1

\* The index of the first ">" at or after i, 0 when there is none: where
\* [^>]*> ends.
RECURSIVE FirstGt(_, _)
FirstGt(s, i) ==
    IF i > Len(s) THEN 0
    ELSE IF s[i] = ">" THEN i
    ELSE FirstGt(s, i + 1)

\* Where the match of the tag pattern
\*   </?([a-zA-Z0-9]+)(?:\s[^>]*)?>
\* that starts at i ends, 0 when the pattern does not match at i.
TagMatchEnd(s, i) ==
    IF s[i] # "<" THEN 0
    ELSE LET n0 == IF i + 1 <= Len(s) /\ s[i + 1] = "/" THEN i + 2 ELSE i + 1
             ne == NameEnd(s, n0)
         IN IF ne < n0 \/ ne + 1 > Len(s) THEN 0
            ELSE IF s[ne + 1] = ">" THEN ne + 1
            ELSE IF IsSpace(s[ne + 1]) THEN FirstGt(s, ne + 2)
            ELSE 0

\* group(1), lower-cased, of the match that starts at i
TagName(s, i) ==
    LET n0 == IF s[i + 1] = "/" THEN i + 2 ELSE i + 1
        ne == NameEnd(s, n0)
    IN [k \in 1..(ne - n0 + 1) |-> Lower(s[n0 + k - 1])]

\* _replace: the em tags are rewritten bare, every other match is deleted
_replace(s, i) ==
    IF TagName(s, i) = <<"e", "m">>
    THEN IF s[i + 1] = "/" THEN <<"<", "/", "e", "m", ">">> ELSE <<"<", "e", "m", ">">>
    ELSE <<>>

\* TAG_RE.sub(_replace, value): one pass from the left over the
\* non-overlapping matches; the replacements are not scanned again.
RECURSIVE tag_sub(_, _)
tag_sub(s, i) ==
    IF i > Len(s) THEN <<>>
    ELSE LET j == TagMatchEnd(s, i)
         IN IF j = 0 THEN <<s[i]>> \o tag_sub(s, i + 1)
            ELSE _replace(s, i) \o tag_sub(s, j + 1)

sanitize_highlight_html(value) ==
    IF value = <<>> THEN value ELSE tag_sub(value, 1)

SanitizeIdle ==
    /\ html_in = <<>>
    /\ html_out = <<>>
    /\ html_pc = "off"

SanitizeInputs ==
    /\ html_in \in SeqUpTo(HtmlAlphabet, MaxHtmlLen)
    /\ html_out = <<>>
    /\ html_pc = "ready"

\* _sanitize_highlight applies the sanitizer to a highlight fragment.
Sanitize ==
    /\ html_pc = "ready"
    /\ html_out' = sanitize_highlight_html(html_in)
    /\ html_pc' = "done"
    /\ UNCHANGED html_in
    /\ UNCHANGED <<chunkVars, normVars, ingestVars, searchVars, facetVars, discoverVars,
                   clientVars, collVars>>

(***************************************************************************)
(* Facet shaping (_build_facets of apps/api/app/main.py) applied to        *)
(* bounded aggregations under a bounded label table.                       *)
(***************************************************************************)
MaxBuckets == 2

FacetKeys == {"k1", "k2", NullKey}
DocCounts == {NoInt, 2}
AggDims == {"lang", "tags"}

\* The bucket lists a terms aggregation returns: keys pairwise distinct.
BucketLists ==
    {bs \in SeqUpTo([key : FacetKeys, doc_count : DocCounts], MaxBuckets) :
        \A i, j \in 1..Len(bs) : i # j => bs[i].key # bs[j].key}

\* facet_labels(): the active rows of facet_labels.csv, none when the
\* file is absent.
LabelTables ==
    UNION {[P -> {"L1"}] : P \in SUBSET {<<"lang", "k1">>, <<"tags", "k1">>}}

FacetIdle ==
    /\ facet_labels = <<>>
    /\ facet_aggs = <<>>
    /\ facet_out = <<>>
    /\ facet_pc = "off"

FacetInputs ==
    /\ facet_labels \in LabelTables
    /\ facet_aggs \in UNION {[D -> BucketLists] : D \in SUBSET AggDims}
    /\ facet_out = <<>>
    /\ facet_pc = "ready"

\* facets = _build_facets(os_res.get("aggregations", {}) or {})
BuildFacets ==
    /\ facet_pc = "ready"
    /\ facet_out' = _build_facets(facet_aggs)
    /\ facet_pc' = "done"
    /\ UNCHANGED <<facet_labels, facet_aggs>>
    /\ UNCHANGED <<chunkVars, normVars, ingestVars, searchVars, sanitizeVars, discoverVars,
                   clientVars, collVars>>

(***************************************************************************)
(* Discovery (discover_200_pri_arabic and _discover_from_metadata_index of *)
(* apps/api/app/ingest/run.py) over a small corpus.  A file is known by    *)
(* the rank of its relative path in lexicographic order, its work          *)
(* directory and whether its name contains "pri"; INGEST_LANGS is left at  *)
(* its default, which holds "ara".                                         *)
(***************************************************************************)
MaxTargetWorks == 2

File(rel, work, pri_name) == [rel |-> rel, work |-> work, pri_name |-> pri_name]

\* data/a1/w1/v1, data/a1/w1/v2pri, data/a1/w1/v3pri, data/a1/w2/v1
CorpusFiles == {File(1, "w1", FALSE), File(2, "w1", TRUE), File(3, "w1", TRUE),
                File(4, "w2", FALSE)}
Works == {f.work : f \in CorpusFiles}
Statuses == {"pri", "sec"}

NoFile == File(0, "", FALSE)
NoEntry == [file |-> NoFile, status |-> "", score |-> -1]

\* _pri_score
_pri_score(f, status) ==
    (IF status = "pri" THEN 2 ELSE 0) + (IF f.pri_name THEN 1 ELSE 0)

\* DiscoveredText
DiscoveredText(f, is_pri) == [rel |-> f.rel, work |-> f.work, is_pri |-> is_pri]

\* "for x in xs: out.append(x); if len(out) >= n: break" from an empty out
AppendUntil(xs, n) == SubSeq(xs, 1, Min(Len(xs), Max(n, 1)))

\* sorted(..., key = repo_rel) of a set of entries
SortedByRel(S) ==
    CHOOSE q \in Perms(S) : \A i, j \in 1..Cardinality(S) : i < j => q[i].file.rel < q[j].file.rel

\* The for loop over metadata_by_path.items() (lines 345-367): sel is
\* selected_by_work, all is all_files.
RECURSIVE metadata_loop(_, _, _, _, _, _)
metadata_loop(md, i, present, onlypri, sel, all) ==
    IF i > Len(md) THEN [sel |-> sel, all |-> all]
    ELSE LET f == md[i].file
             status == md[i].status
             score == _pri_score(f, status)
             prev == sel[f.work]
         IN IF f \notin present
            THEN metadata_loop(md, i + 1, present, onlypri, sel, all)
            ELSE IF onlypri
            THEN IF score <= 0
                 THEN metadata_loop(md, i + 1, present, onlypri, sel, all)
                 ELSE IF \/ prev = NoEntry
                         \/ score > prev.score
                         \/ score = prev.score /\ f.rel < prev.file.rel
                 THEN metadata_loop(md, i + 1, present, onlypri,
                                    [sel EXCEPT ![f.work] = [file |-> f, status |-> status,
                                                            score |-> score]], all)
                 ELSE metadata_loop(md, i + 1, present, onlypri, sel, all)
            ELSE metadata_loop(md, i + 1, present, onlypri, sel, Append(all, f))

\* _discover_from_metadata_index
_discover_from_metadata_index(present, tw, md, onlypri) ==
    IF md = <<>> \/ tw <= 0 THEN <<>>
    ELSE LET r == metadata_loop(md, 1, present, onlypri, [w \in Works |-> NoEntry], <<>>)
             chosen == SortedByRel({r.sel[w] : w \in {x \in Works : r.sel[x] # NoEntry}})
             files == IF onlypri
                      THEN [i \in 1..Min(Len(chosen), tw) |-> chosen[i].file]
                      ELSE SubSeq(r.all, 1, Min(Len(r.all), tw))
         IN AppendUntil([i \in 1..Len(files) |-> DiscoveredText(files[i], files[i].pri_name)], tw)

WorksOf(fs) == {fs[i].work : i \in 1..Len(fs)}

\* The walk over iter_text_files (lines 415-440): pri is pri_by_workdir and
\* first is first_by_workdir, each as its values in insertion order; the
\* loop breaks once pri_by_workdir holds target_works files.
RECURSIVE walk_loop(_, _, _, _, _, _)
walk_loop(fs, i, tw, onlypri, pri, first) ==
    IF i > Len(fs) THEN [pri |-> pri, first |-> first]
    ELSE LET fp == fs[i]
             first1 == IF onlypri /\ fp.work \notin WorksOf(first)
                       THEN Append(first, fp) ELSE first
         IN IF onlypri /\ fp.pri_name /\ fp.work \notin WorksOf(pri)
            THEN IF Len(pri) + 1 >= tw
                 THEN [pri |-> Append(pri, fp), first |-> first1]
                 ELSE walk_loop(fs, i + 1, tw, onlypri, Append(pri, fp), first1)
            ELSE walk_loop(fs, i + 1, tw, onlypri, pri, first1)

\* files_by_workdir flattened: the work directories in the order they
\* were first met, the files of each in the order they were met.
RECURSIVE by_workdir(_, _)
by_workdir(fs, seen) ==
    IF fs = <<>> THEN <<>>
    ELSE IF Head(fs).work \in seen THEN by_workdir(Tail(fs), seen)
    ELSE LET SameWork(f) == f.work = Head(fs).work
         IN SelectSeq(fs, SameWork) \o by_workdir(Tail(fs), seen \cup {Head(fs).work})

\* discover_200_pri_arabic
discover_200_pri_arabic(fs, tw, md, onlypri) ==
    LET from_md == IF md # <<>>
                   THEN _discover_from_metadata_index(Range(fs), tw, md, onlypri)
                   ELSE <<>>
        r == walk_loop(fs, 1, tw, onlypri, <<>>, <<>>)
        NoPriYet(f) == f.work \notin WorksOf(r.pri)
        rest == SelectSeq(r.first, NoPriYet)
        pri_files == IF onlypri
                     THEN IF Len(r.pri) < tw
                          THEN r.pri \o SubSeq(rest, 1, Min(Len(rest), tw - Len(r.pri)))
                          ELSE r.pri
                     ELSE by_workdir(fs, {})
    IN IF from_md # <<>> THEN from_md
       ELSE AppendUntil([i \in 1..Len(pri_files) |->
                            DiscoveredText(pri_files[i],
                                           IF pri_files[i].pri_name THEN TRUE ELSE onlypri)],
                        tw)

DiscoverIdle ==
    /\ text_files = <<>>
    /\ metadata_by_path = <<>>
    /\ target_works = 0
    /\ only_pri = TRUE
    /\ discovered = <<>>
    /\ disc_pc = "off"

\* Any corpus, any metadata index over its paths (entries may name files
\* that are not there), any target from 0 up.
DiscoverInputs ==
    /\ text_files \in NoDupSeqs(CorpusFiles)
    /\ metadata_by_path \in
           UNION {{[i \in 1..Len(q) |-> [file |-> q[i], status |-> st[i]]]
                      : st \in [1..Len(q) -> Statuses]}
                  : q \in NoDupSeqs(CorpusFiles)}
    /\ target_works \in 0..MaxTargetWorks
    /\ only_pri \in BOOLEAN
    /\ discovered = <<>>
    /\ disc_pc = "ready"

\* texts = discover_200_pri_arabic(corpus_root, target_works = ..., metadata_by_path = ...)
Discover ==
    /\ disc_pc = "ready"
    /\ discovered' = discover_200_pri_arabic(text_files, target_works, metadata_by_path, only_pri)
    /\ disc_pc' = "done"
    /\ UNCHANGED <<text_files, metadata_by_path, target_works, only_pri>>
    /\ UNCHANGED <<chunkVars, normVars, ingestVars, searchVars, sanitizeVars, facetVars,
                   clientVars, collVars>>

(***************************************************************************)
(* Store client handles: get_engine (db.py), get_opensearch and get_qdrant *)
(* (clients/).  The handlers are plain functions, which the server runs in *)
(* worker threads; a thread can be descheduled between the test of the     *)
(* global and the assignment to it.                                        *)
(***************************************************************************)
MaxThreads == 2

Threads == 1..MaxThreads
Getters == {"get_engine", "get_opensearch", "get_qdrant"}
NoHandle == 0

ClientsIdle ==
    /\ client_global = [g \in Getters |-> NoHandle]
    /\ constructed = [g \in Getters |-> 0]
    /\ returned = [g \in Getters |-> {}]
    /\ th_pc = [t \in Threads |-> "off"]
    /\ th_getter = [t \in Threads |-> ""]
    /\ th_new = [t \in Threads |-> NoHandle]

\* A fresh process: no client yet, every request thread outside the getters.
ClientsInit ==
    /\ client_global = [g \in Getters |-> NoHandle]
    /\ constructed = [g \in Getters |-> 0]
    /\ returned = [g \in Getters |-> {}]
    /\ th_pc = [t \in Threads |-> "out"]
    /\ th_getter = [t \in Threads |-> ""]
    /\ th_new = [t \in Threads |-> NoHandle]

OthersFrozen == UNCHANGED <<chunkVars, normVars, ingestVars, searchVars, sanitizeVars,
                            facetVars, discoverVars, collVars>>

\* A request thread enters one of the getters.
CallGetter(t) ==
    /\ th_pc[t] = "out"
    /\ \E g \in Getters : th_getter' = [th_getter EXCEPT ![t] = g]
    /\ th_pc' = [th_pc EXCEPT ![t] = "test"]
    /\ UNCHANGED <<client_global, constructed, returned, th_new>>
    /\ OthersFrozen

\* if _client is None:
TestGlobal(t) ==
    /\ th_pc[t] = "test"
    /\ th_pc' = [th_pc EXCEPT ![t] = IF client_global[th_getter[t]] = NoHandle
                                     THEN "construct" ELSE "return"]
    /\ UNCHANGED <<client_global, constructed, returned, th_getter, th_new>>
    /\ OthersFrozen

\* OpenSearch(...) / QdrantClient(...) / create_engine(...): a new object
ConstructClient(t) ==
    /\ th_pc[t] = "construct"
    /\ constructed' = [constructed EXCEPT ![th_getter[t]] = @ + 1]
    /\ th_new' = [th_new EXCEPT ![t] = constructed[th_getter[t]] + 1]
    /\ th_pc' = [th_pc EXCEPT ![t] = "assign"]
    /\ UNCHANGED <<client_global, returned, th_getter>>
    /\ OthersFrozen

\* _client = <the new object>
AssignGlobal(t) ==
    /\ th_pc[t] = "assign"
    /\ client_global' = [client_global EXCEPT ![th_getter[t]] = th_new[t]]
    /\ th_pc' = [th_pc EXCEPT ![t] = "return"]
    /\ UNCHANGED <<constructed, returned, th_getter, th_new>>
    /\ OthersFrozen

\* return _client
ReturnGlobal(t) ==
    /\ th_pc[t] = "return"
    /\ returned' = [returned EXCEPT ![th_getter[t]] = @ \cup {client_global[th_getter[t]]}]
    /\ th_pc' = [th_pc EXCEPT ![t] = "out"]
    /\ th_getter' = [th_getter EXCEPT ![t] = ""]
    /\ th_new' = [th_new EXCEPT ![t] = NoHandle]
    /\ UNCHANGED <<client_global, constructed>>
    /\ OthersFrozen

(***************************************************************************)
(* Vector collection set-up: run() loads the embedding model and calls     *)
(* ensure_qdrant_collection before it processes the first text.  The       *)
(* model id comes from the environment and may differ from run to run.     *)
(***************************************************************************)
MaxDim == 3
MaxCollRuns == 3

Dims == 2..MaxDim
Distances == {"Cosine", "Euclid", "Dot"}
NoCollection == [exists |-> FALSE, size |-> NoInt, distance |-> ""]
Collection(size, distance) == [exists |-> TRUE, size |-> size, distance |-> distance]

\* ensure_qdrant_collection: an existing name returns at once; otherwise the
\* collection is created with the model's dimension and cosine distance.
ensure_qdrant_collection(coll, dim) ==
    IF coll.exists THEN coll ELSE Collection(dim, "Cosine")

CollIdle ==
    /\ qd_collection = NoCollection
    /\ model_dim = NoInt
    /\ coll_pc = "off"
    /\ coll_run = 0
    /\ coll_created = 0

\* Before the first run the collection is absent or was made by anyone.
CollInit ==
    /\ qd_collection \in {NoCollection} \cup
                          {Collection(n, dist) : n \in Dims, dist \in Distances}
    /\ model_dim = NoInt
    /\ coll_pc = "idle"
    /\ coll_run = 0
    /\ coll_created = 0

CollFrozen == UNCHANGED <<chunkVars, normVars, ingestVars, searchVars, sanitizeVars,
                          facetVars, discoverVars, clientVars>>

\* model = SentenceTransformer(EMBEDDING_MODEL_ID, ...)
LoadModel ==
    /\ coll_pc = "idle"
    /\ coll_run < MaxCollRuns
    /\ coll_run' = coll_run + 1
    /\ model_dim' \in Dims
    /\ coll_pc' = "loaded"
    /\ UNCHANGED <<qd_collection, coll_created>>
    /\ CollFrozen

\* ensure_qdrant_collection(model, settings.QDRANT_COLLECTION)
EnsureCollection ==
    /\ coll_pc = "loaded"
    /\ qd_collection' = ensure_qdrant_collection(qd_collection, model_dim)
    /\ coll_created' = IF qd_collection.exists THEN coll_created ELSE coll_created + 1
    /\ coll_pc' = "ensured"
    /\ UNCHANGED <<model_dim, coll_run>>
    /\ CollFrozen

\* the first embed_and_upsert of the run
FirstVectorUpsert ==
    /\ coll_pc = "ensured"
    /\ coll_pc' = "upserted"
    /\ UNCHANGED <<qd_collection, model_dim, coll_run, coll_created>>
    /\ CollFrozen

\* the run ends, with or without a vector upsert
EndCollRun ==
    /\ coll_pc \in {"ensured", "upserted"}
    /\ coll_pc' = "idle"
    /\ UNCHANGED <<qd_collection, model_dim, coll_run, coll_created>>
    /\ CollFrozen

AuxIdle == SanitizeIdle /\ FacetIdle /\ DiscoverIdle /\ ClientsIdle /\ CollIdle

(***************************************************************************)
(* Specifications                                                          *)
(***************************************************************************)
vars == <<chunkVars, normVars, ingestVars, searchVars, auxVars>>

Init == IngestInit /\ ChunkIdle /\ NormIdle /\ SearchIdle /\ AuxIdle
Spec == Init /\ [][Next]_vars
SpecIdem == Init /\ [][NextIdem]_vars

InitChunk == ChunkInputs /\ NormIdle /\ IngestIdle /\ SearchIdle /\ AuxIdle
NextChunk == CallChunkWords
SpecChunk == InitChunk /\ [][NextChunk]_vars

InitNorm == NormInputs /\ ChunkIdle /\ IngestIdle /\ SearchIdle /\ AuxIdle
NextNorm == NormalizeQuery \/ NormalizeIngest \/ NormalizeEval
SpecNorm == InitNorm /\ [][NextNorm]_vars

InitSearch == SearchInit /\ ChunkIdle /\ NormIdle /\ IngestQuiet /\ AuxIdle
NextSearch == Search \/ Embed
SpecSearch == InitSearch /\ [][NextSearch]_vars

InitSanitize == SanitizeInputs /\ ChunkIdle /\ NormIdle /\ IngestIdle /\ SearchIdle
                    /\ FacetIdle /\ DiscoverIdle /\ ClientsIdle /\ CollIdle
NextSanitize == Sanitize
SpecSanitize == InitSanitize /\ [][NextSanitize]_vars

InitFacets == FacetInputs /\ ChunkIdle /\ NormIdle /\ IngestIdle /\ SearchIdle
                  /\ SanitizeIdle /\ DiscoverIdle /\ ClientsIdle /\ CollIdle
NextFacets == BuildFacets
SpecFacets == InitFacets /\ [][NextFacets]_vars

InitDiscover == DiscoverInputs /\ ChunkIdle /\ NormIdle /\ IngestIdle /\ SearchIdle
                    /\ SanitizeIdle /\ FacetIdle /\ ClientsIdle /\ CollIdle
NextDiscover == Discover
SpecDiscover == InitDiscover /\ [][NextDiscover]_vars

InitClients == ClientsInit /\ ChunkIdle /\ NormIdle /\ IngestIdle /\ SearchIdle
                   /\ SanitizeIdle /\ FacetIdle /\ DiscoverIdle /\ CollIdle
NextClients ==
    \E t \in Threads :
        \/ CallGetter(t)
        \/ TestGlobal(t)
        \/ ConstructClient(t)
        \/ AssignGlobal(t)
        \/ ReturnGlobal(t)
SpecClients == InitClients /\ [][NextClients]_vars

InitColl == CollInit /\ ChunkIdle /\ NormIdle /\ IngestIdle /\ SearchIdle
                /\ SanitizeIdle /\ FacetIdle /\ DiscoverIdle /\ ClientsIdle
NextColl == LoadModel \/ EnsureCollection \/ FirstVectorUpsert \/ EndCollRun
SpecColl == InitColl /\ [][NextColl]_vars

(***************************************************************************)
(* Claims                                                                  *)
(***************************************************************************)
\* A call to the vector store (vector_search or vector_count) raised while
\* the request was served.
VectorCallRaised ==
    \E i \in 1..Len(calls) :
        calls[i].fn \in {"vector_search", "vector_count"} /\ calls[i].raised

\* A call to the lexical store raised while the request was served.
LexicalCallRaised ==
    \E i \in 1..Len(calls) :
        /\ calls[i].fn \in {"bm25_search", "filter_chunk_ids",
                            "fetch_sources_by_chunk_ids"}
        /\ calls[i].raised

\* The hits of a direct bm25-mode search with the query text, filters, page
\* and size of the request served, the lexical store answering.
DirectBm25Hits == search_bm25([req EXCEPT !.mode = "bm25"], QuietEnv).resp.results

\* The response is the fallback answer: successful, requested hybrid,
\* answered as bm25 with the one warning code and the direct bm25 hits.
FallbackAnswer ==
    /\ resp.status = 200
    /\ resp.requested_mode = "hybrid"
    /\ resp.effective_mode = "bm25"
    /\ resp.warnings = <<"qdrant_unavailable_fallback_bm25">>
    /\ resp.results = DirectBm25Hits

\* C1 as stated: in hybrid mode, whenever the vector-store call raises, the
\* response is successful, requested_mode hybrid, effective_mode bm25,
\* warnings exactly [qdrant_unavailable_fallback_bm25], and the hits are
\* those of a direct bm25-mode search for the same query, filters, page and
\* size.
C1_FallbackOnVectorFailure ==
    (search_pc = "done" /\ req.mode = "hybrid" /\ VectorCallRaised)
        => FallbackAnswer

\* C1 amended: in hybrid mode, whenever the vector-store call raises and the
\* fallback lexical query answers, the response is the fallback answer
\* above; when the fallback lexical query raises as well, no successful
\* response is returned.
C1_FallbackWhenLexicalAnswers ==
    (search_pc = "done" /\ req.mode = "hybrid" /\ VectorCallRaised)
        => IF LexicalCallRaised THEN resp.status # 200 ELSE FallbackAnswer

\* C1 witness: a hybrid request for the second page whose vector call
\* raised and that was answered with a lexical hit of that page, while the
\* candidate pool held more hits than the page.
C1_Witness ==
    /\ search_pc = "done"
    /\ req.mode = "hybrid"
    /\ VectorCallRaised
    /\ ~LexicalCallRaised
    /\ req.page = 2
    /\ resp.status = 200
    /\ resp.results # <<>>
    /\ resp.total > Len(resp.results)

CeilDiv(a, b) == (a + b - 1) \div b

\* ---- ingestion ----
Status(v) == ingest_state[v].status

\* position of a status along discovered -> parsed -> indexed_lexical ->
\* indexed_vector -> complete
StatusRank(st) ==
    CASE st = "none" -> 0
      [] st = "discovered" -> 1
      [] st = "parsed" -> 2
      [] st = "indexed_bm25" -> 3
      [] st = "embedded" -> 4
      [] st = "complete" -> 5
      [] st = "failed" -> 6

Terminal == {"complete", "failed"}

ForwardStep(a, b) ==
    \/ a = b
    \/ a \notin Terminal /\ (b = "failed" \/ StatusRank(b) > StatusRank(a))

\* C2: the persisted status of a Version only moves forward along
\* discovered -> parsed -> indexed_bm25 -> embedded -> complete, or into
\* failed from a non-terminal status; no write stores an earlier status and
\* a terminal status is never left.
C2_StatusOnlyForward ==
    [][\A v \in Docs : ForwardStep(Status(v), ingest_state'[v].status)]_vars

RunFinished == pc = "idle" /\ run_no >= 1

\* C3: when a step of one document raises, failed and the error message
\* are persisted for it and the loop goes on: the exception never leaves
\* run(), and at the end of the run every discovered document is complete
\* or failed (failed by an exception carrying its message).
C3_FailureIsolated ==
    /\ pc # "aborted"
    /\ RunFinished => \A v \in Docs : Status(v) \in {"complete", "failed"}
    /\ \A v \in Docs :
          (Status(v) = "failed" /\ versions[v].checksum = NoId)
              => ingest_state[v].error_message # ""

InProcess(v) == t_idx > 0 /\ Cur = v

RowsOf(v) == {r \in chunks : r.version_id = v}

\* number of chunks a content yields under the configured chunking
ChunkCount(content) ==
    Len(chunk_words(DocWords(content), CHUNK_TARGET_WORDS, CHUNK_MAX_OVERLAP_WORDS))

\* The stores hold for v exactly what one pass over the file writes: one
\* row, one lexical document and (with embeddings) one point per chunk id
\* v::0 .. v::k-1, and the checksum of the file.
StoresHoldExactly(v) ==
    LET k == ChunkCount(corpus[v])
        ids == {ChunkId(v, i) : i \in 0..(k - 1)}
    IN /\ {r.chunk_id : r \in RowsOf(v)} = ids
       /\ Cardinality(RowsOf(v)) = k
       /\ versions[v].checksum = sha256_file(corpus[v])
       /\ {d.chunk_id : d \in {d \in os_index : d.version_id = v}} = ids
       /\ Cardinality({d \in os_index : d.version_id = v}) = k
       /\ LET pts == {q \in qdrant : q.version_id = v}
          IN IF embeddings_enabled
             THEN {q.chunk_id : q \in pts} = ids /\ Cardinality(pts) = k
             ELSE pts = {}

C5_ChunkLinkage ==
    \A v \in Docs :
        (Status(v) = "complete" /\ ~InProcess(v)) =>
            LET k == ChunkCount(versions[v].checksum[2])
            IN /\ {r.chunk_index : r \in RowsOf(v)} = 0..(k - 1)
               /\ Cardinality(RowsOf(v)) = k
               /\ \A r \in RowsOf(v) :
                     /\ r.prev_chunk_id = IF r.chunk_index = 0 THEN NoId
                                          ELSE ChunkId(v, r.chunk_index - 1)
                     /\ r.next_chunk_id = IF r.chunk_index = k - 1 THEN NoId
                                          ELSE ChunkId(v, r.chunk_index + 1)

HasLink(r) == r.prev_chunk_id # NoId \/ r.next_chunk_id # NoId

\* positions of a pass that precede the execution of set_chunk_links
BeforeLinks == {"upsert_author", "upsert_work", "upsert_version", "set_discovered",
                "read_file", "upsert_version_stats", "set_parsed", "chunk", "buffer",
                "flush_rows", "flush_lexical", "flush_state_bm25", "flush_vector",
                "flush_state_embedded", "set_links"}

\* C6 as stated: a chunk row has a non-null link only after all chunks of
\* its Version have been written in the current pass.
C6_LinksOnlyAfterAllWritten ==
    \A r \in chunks :
        HasLink(r) => ~(InProcess(r.version_id) /\ pc \in BeforeLinks)

\* chunk indexes the current pass has already upserted to the chunks table
WrittenInPass ==
    IF pc \in {"buffer", "flush_rows", "flush_lexical", "flush_state_bm25",
               "flush_vector", "flush_state_embedded", "set_links"}
    THEN LET pending == {gen[i].chunk_index : i \in 1..Len(gen)}
                        \cup (IF pc \in {"buffer", "flush_rows"}
                              THEN {chunk_rows[i].chunk_index : i \in 1..Len(chunk_rows)}
                              ELSE {})
         IN (0..(ChunkCount(raw) - 1)) \ pending
    ELSE {}

\* C6 amended: a row written by the current pass has null links until the
\* link pass (a row left by an earlier pass keeps its links until the
\* current pass rewrites it); a link becomes non-null only in
\* set_chunk_links, which runs when every chunk of the pass is in the
\* table, after the last flush, and is followed by the write of complete.
C6_LinksSetOnlyByLinkPass ==
    /\ [](\A r \in chunks :
            (InProcess(r.version_id) /\ pc \in BeforeLinks
             /\ r.chunk_index \in WrittenInPass) => ~HasLink(r))
    /\ [](pc = "set_links" =>
            /\ gen = <<>>
            /\ WrittenInPass = 0..(ChunkCount(raw) - 1)
            /\ \A i \in WrittenInPass : \E r \in RowsOf(Cur) : r.chunk_index = i
            /\ Status(Cur) # "complete")
    /\ [][(\E r \in chunks' : HasLink(r) /\ r \notin chunks)
            => (pc = "set_links" /\ pc' = "set_complete")]_vars

\* C6 witness: on a rerun, the first batch has been rewritten with null
\* links while a row of the earlier pass still carries its links.
C6_Witness ==
    /\ run_no = 2
    /\ t_idx > 0
    /\ pc = "buffer"
    /\ WrittenInPass # {}
    /\ \E r \in RowsOf(Cur) : HasLink(r)
    /\ \E r \in RowsOf(Cur) : r.chunk_index \in WrittenInPass /\ ~HasLink(r)

\* ---- chunker ----
\* C7: for N tokens, target T > 0 and overlap O < T, chunk_words emits
\* exactly 1 chunk if N <= T and exactly ceil((N-T)/(T-O)) + 1 chunks
\* otherwise.  (Stated for N >= 1, the inputs run() passes; for N = 0 the
\* loop body never runs and no chunk is emitted.)
C7_ChunkCountFormula ==
    (chunk_pc = "done" /\ overlap < target /\ Len(words) >= 1) =>
        Len(emitted) = IF Len(words) <= target THEN 1
                       ELSE CeilDiv(Len(words) - target, target - overlap) + 1

\* DropLeading(w, O): the window minus its leading O overlap tokens (w[O:]).
DropLeading(w, n) == SubSeq(w, n + 1, Len(w))

RECURSIVE Reconstruct(_, _, _)
Reconstruct(cs, k, ovl) ==
    IF k > Len(cs) THEN <<>>
    ELSE (IF k = 1 THEN cs[k].wslice ELSE DropLeading(cs[k].wslice, ovl))
         \o Reconstruct(cs, k + 1, ovl)

\* C8: for target T > 0 and overlap O < T, the windows carry indexes
\* 0,1,2,... with no gap, start at index*(T-O), hold between 1 and T tokens,
\* and the first window followed by every later window minus its leading O
\* tokens is the original token sequence.
C8_WindowsReconstruct ==
    (chunk_pc = "done" /\ overlap < target) =>
        /\ \A k \in 1..Len(emitted) :
              /\ emitted[k].chunk_index = k - 1
              /\ emitted[k].start = (k - 1) * (target - overlap)
              /\ Len(emitted[k].wslice) >= 1
              /\ Len(emitted[k].wslice) <= target
        /\ Reconstruct(emitted, 1, overlap) = words

\* C8 witness: an overlapping chunking of at least three windows whose
\* last window is shorter than the target.
C8_Witness ==
    /\ chunk_pc = "done"
    /\ overlap > 0
    /\ overlap < target
    /\ Len(emitted) >= 3
    /\ Len(emitted[Len(emitted)].wslice) < target

\* C9: normalization is idempotent: normalizing an already normalized
\* string returns it unchanged, for the query-side normalizer under every
\* configuration and for the ingest-side normalizer.
C9_NormalizeIdempotent ==
    applied = 2 => text = before

\* The candidate ids the two stores return to a hybrid request, in rank
\* order, and the position of an id in such a list (0 when absent).
LexicalCandidates ==
    LET hits == bm25_search(_candidate_k(req.page, req.size), 0, req.langs,
                            req.pri_only, FALSE).hits
    IN [i \in 1..Len(hits) |-> hits[i]._id]
VectorCandidates ==
    LET hits == vector_search(_candidate_k(req.page, req.size), 0, req.langs,
                              req.pri_only)
    IN [i \in 1..Len(hits) |-> hits[i].chunk_id]
PosIn(list, cid) ==
    IF \E i \in 1..Len(list) : list[i] = cid
    THEN CHOOSE i \in 1..Len(list) : list[i] = cid
    ELSE 0

\* n/d = 1/(k + rb) + 1/(k + rv), a term left out when its rank is 0
IsReciprocalRankSum(n, d, k, rb, rv) ==
    IF rb > 0 /\ rv > 0
    THEN n * (k + rb) * (k + rv) = d * ((k + rb) + (k + rv))
    ELSE IF rb > 0 THEN n * (k + rb) = d
    ELSE IF rv > 0 THEN n * (k + rv) = d
    ELSE n = 0

\* A hybrid request answered by fusion, both stores having answered.
FusedAnswer ==
    /\ search_pc = "done"
    /\ req.mode = "hybrid"
    /\ resp.status = 200
    /\ resp.effective_mode = "hybrid"

\* C10: in hybrid mode with both stores answering, the score of every
\* returned chunk id is the sum of 1/(k + rank), rank 1-based, over the
\* lexical and the vector candidate lists that hold it, with k = 60 when the
\* configuration sets none; the hits are in descending score order; and for
\* lexical order [A, B] and vector order [B, C] the hits are [B, A, C].
C10_ReciprocalRankFusion ==
    FusedAnswer =>
        LET k == IF hybrid_cfg.rrf_k = NoInt THEN 60 ELSE hybrid_cfg.rrf_k
            hits == resp.results
        IN /\ \A i \in 1..Len(hits) :
                /\ hits[i].chunk_id \in Range(LexicalCandidates) \cup Range(VectorCandidates)
                /\ IsReciprocalRankSum(hits[i].score[1], hits[i].score[2], k,
                                       PosIn(LexicalCandidates, hits[i].chunk_id),
                                       PosIn(VectorCandidates, hits[i].chunk_id))
           /\ \A i, j \in 1..Len(hits) :
                i < j => hits[i].score[1] * hits[j].score[2]
                            >= hits[j].score[1] * hits[i].score[2]
           /\ (/\ LexicalCandidates = <<"A", "B">>
               /\ VectorCandidates = <<"B", "C">>
               /\ req.page = 1
               /\ req.size >= 3)
                => [i \in 1..Len(hits) |-> hits[i].chunk_id] = <<"B", "A", "C">>

\* C10 witness: under the default k, lexical order [A, B] and vector order
\* [B, C] fused into the hits [B, A, C].
C10_Witness ==
    /\ FusedAnswer
    /\ hybrid_cfg = EmptyHybridCfg
    /\ LexicalCandidates = <<"A", "B">>
    /\ VectorCandidates = <<"B", "C">>
    /\ Len(resp.results) = 3
    /\ [i \in 1..3 |-> resp.results[i].chunk_id] = <<"B", "A", "C">>
    /\ resp.results[1].score = <<123, 3782>>

\* The chunk ids vector_search returned to the request served, in the vector
\* store's order: the page in vector mode, the candidate pool in hybrid mode.
VectorHitsReturned ==
    LET hits == IF req.mode = "vector"
                THEN vector_search(req.size, (req.page - 1) * req.size,
                                   req.langs, req.pri_only)
                ELSE vector_search(_candidate_k(req.page, req.size), 0,
                                   req.langs, req.pri_only)
    IN [i \in 1..Len(hits) |-> hits[i].chunk_id]

\* The ids among them that pass the request's filters at the lexical store.
AllowedByLexicalStore == filter_chunk_ids(VectorHitsReturned, req.langs, req.pri_only)

ResultIds == [i \in 1..Len(resp.results) |-> resp.results[i].chunk_id]

\* C11: every vector-store hit that contributes to a response, in vector
\* mode and among the fused candidates of hybrid mode, has passed the filter
\* check against the lexical store; a hit not in the allowed set is dropped,
\* and in vector mode the surviving hits keep the vector store's order.
C11_VectorHitsRechecked ==
    (/\ search_pc = "done"
     /\ resp.status = 200
     /\ req.mode \in {"vector", "hybrid"}
     /\ resp.effective_mode = req.mode)
        => /\ \A i \in 1..Len(ResultIds) :
                ResultIds[i] \in Range(VectorHitsReturned)
                    => ResultIds[i] \in AllowedByLexicalStore
           /\ req.mode = "vector" =>
                LET Allowed(c) == c \in AllowedByLexicalStore
                IN ResultIds = SelectSeq(VectorHitsReturned, Allowed)

\* C12: a lexical-store exception in any query mode is not recovered: no
\* result is returned and the caller receives the service-unavailable
\* status (503) that a vector-store exception yields in vector mode.
C12_LexicalFailureIs503 ==
    (search_pc = "done" /\ LexicalCallRaised)
        => resp.status = 503 /\ resp.results = <<>>

\* An /embed request that fails validation: no text, more texts than the
\* maximum batch size, or a text longer than the maximum length.
EmbedInvalid ==
    \/ embed_req.texts = <<>>
    \/ Len(embed_req.texts) > (IF embedding_cfg.max_batch_size = NoInt
                               THEN 32 ELSE embedding_cfg.max_batch_size)
    \/ \E i \in 1..Len(embed_req.texts) : embed_req.texts[i] = "long"

\* C13: a search whose query is longer than the maximum, and an embed
\* request that is empty, oversized or holds an overlong text, are
\* answered with HTTP 400 and no call to the embedding provider, the
\* lexical store or the vector store was made and no text reached the model.
C13_ValidationBeforeCollaborators ==
    /\ (search_pc = "done" /\ req.q_too_long)
           => (resp.status = 400 /\ calls = <<>> /\ model_inputs = <<>>)
    /\ (search_pc = "embed_done" /\ EmbedInvalid)
           => (embed_resp.status = 400 /\ calls = <<>> /\ model_inputs = <<>>)

\* An embed request of three short texts is rejected under a maximum
\* batch size of two.
C13_Witness ==
    /\ search_pc = "embed_done"
    /\ embedding_cfg = SmallBatchCfg
    /\ embed_req.texts = <<"ok", "ok", "ok">>
    /\ embed_resp.status = 400
    /\ calls = <<>>

\* Where a markup tag opens in fragment s: a "<" followed by a letter, or
\* by "/" and a letter.
TagOpensAt(s, i) ==
    /\ s[i] = "<"
    /\ \/ i + 1 <= Len(s) /\ IsAlnum(s[i + 1])
       \/ i + 2 <= Len(s) /\ s[i + 1] = "/" /\ IsAlnum(s[i + 2])

\* The markup tags of fragment s: from an opening up to the next ">".
TagsOf(s) ==
    {SubSeq(s, i, FirstGt(s, i)) : i \in {k \in 1..Len(s) : TagOpensAt(s, k) /\ FirstGt(s, k) # 0}}

\* C14: the output of sanitize_highlight_html holds no markup tag other
\* than exactly <em> and </em>.
C14_OnlyEmTagsSurvive ==
    html_pc = "done" =>
        TagsOf(html_out) \subseteq {<<"<", "e", "m", ">">>, <<"<", "/", "e", "m", ">">>}

\* The buckets the store returned for dimension dim.
ReturnedBuckets(dim) == IF dim \in DOMAIN facet_aggs THEN facet_aggs[dim] ELSE <<>>

\* Sequence s without the buckets whose key is null, order kept.
RECURSIVE WithoutNullKeys(_)
WithoutNullKeys(s) ==
    IF s = <<>> THEN <<>>
    ELSE IF Head(s).key = NullKey THEN WithoutNullKeys(Tail(s))
    ELSE <<Head(s)>> \o WithoutNullKeys(Tail(s))

\* C15: for each of the five facet dimensions _build_facets emits one
\* bucket per returned bucket with a non-null key, in the store's order,
\* labelled from the label table when it has an entry for (dimension, key)
\* and with the raw key otherwise, and counted with the bucket's document
\* count.
C15_FacetBuckets ==
    facet_pc = "done" =>
        /\ DOMAIN facet_out = FacetDims
        /\ \A dim \in FacetDims :
             LET given == WithoutNullKeys(ReturnedBuckets(dim))
                 out == facet_out[dim]
             IN /\ Len(out) = Len(given)
                /\ \A i \in 1..Len(out) :
                     /\ out[i].key = given[i].key
                     /\ <<dim, out[i].key>> \in DOMAIN facet_labels
                            => out[i].label = facet_labels[<<dim, out[i].key>>]
                     /\ <<dim, out[i].key>> \notin DOMAIN facet_labels
                            => out[i].label = out[i].key
                     /\ given[i].doc_count # NoInt => out[i].count = given[i].doc_count

\* A lang aggregation of a null-key bucket and a labelled key next to a
\* tags aggregation whose key has no label.
C15_Witness ==
    /\ facet_pc = "done"
    /\ DOMAIN facet_aggs = {"lang", "tags"}
    /\ DOMAIN facet_labels = {<<"lang", "k1">>}
    /\ facet_aggs["lang"] = <<[key |-> NullKey, doc_count |-> 2], [key |-> "k1", doc_count |-> 2]>>
    /\ facet_out["lang"] = <<FacetBucket("k1", "L1", 2)>>
    /\ facet_aggs["tags"] = <<[key |-> "k2", doc_count |-> 2], [key |-> "k1", doc_count |-> 2]>>
    /\ facet_out["tags"] = <<FacetBucket("k2", "k2", 2), FacetBucket("k1", "k1", 2)>>
    /\ facet_out["period"] = <<>>

\* C16: every chunk text the ingest pipeline embeds is encoded with the
\* passage role tag, every search query with the query role tag, and every
\* text of an embed request with the tag of its role.
C16_RoleTags ==
    /\ \A p \in qdrant : "vector" \in DOMAIN p => p.vector.prefix = "passage: "
    /\ search_pc = "done" =>
           \A i \in 1..Len(model_inputs) : model_inputs[i].prefix = "query: "
    /\ search_pc = "embed_done" =>
           \A i \in 1..Len(model_inputs) :
               model_inputs[i].prefix = (IF embed_req.input_type = "passage"
                                         THEN "passage: " ELSE "query: ")

\* The pass is at a document whose file holds no word.
AtEmptyDocument ==
    /\ t_idx >= 1
    /\ pc \notin {"off", "idle", "aborted"}
    /\ corpus[Cur] = 0

\* C17: while run() is at a document that yields zero chunks, no step
\* writes a chunk row, a lexical document or a vector point nor sets the
\* status indexed_bm25, embedded or complete; and the step that finds the
\* word list empty persists failed with the message "empty text after
\* normalization" and moves on to the next document.
C17_EmptyDocumentFails ==
    [][AtEmptyDocument =>
          LET v == Cur
          IN /\ chunks' = chunks /\ os_index' = os_index /\ qdrant' = qdrant
             /\ ingest_state'[v].status # ingest_state[v].status
                    => ingest_state'[v].status \notin {"indexed_bm25", "embedded", "complete"}
             /\ (pc = "chunk" /\ pc' # "except") =>
                    /\ ingest_state'[v].status = "failed"
                    /\ ingest_state'[v].error_message = "empty text after normalization"
                    /\ IF t_idx < Len(DiscoveredTexts)
                       THEN t_idx' = t_idx + 1 /\ pc' = "upsert_author"
                       ELSE pc' = "idle"]_vars

\* The first document was indexed in the first pass, then emptied; the
\* second pass marked it failed, left its earlier chunks alone and is at
\* the second document.
C17_Witness ==
    /\ run_no = 2
    /\ t_idx = 2
    /\ pc = "upsert_author"
    /\ corpus[DiscoveredTexts[1]] = 0
    /\ ingest_state[DiscoveredTexts[1]].status = "failed"
    /\ ingest_state[DiscoveredTexts[1]].error_message = "empty text after normalization"
    /\ \E c \in chunks : c.version_id = DiscoveredTexts[1]

\* C18: with only-primary selection, no two returned documents belong to
\* the same work and every returned document carries is_pri = TRUE.
C18_OnePrimaryPerWork ==
    (disc_pc = "done" /\ only_pri) =>
        /\ \A i, j \in 1..Len(discovered) :
               i # j => discovered[i].work # discovered[j].work
        /\ \A i \in 1..Len(discovered) : discovered[i].is_pri = TRUE

\* The metadata entries of the files that are there, with their score.
ScoredEntries ==
    {[file |-> metadata_by_path[i].file,
      score |-> (IF metadata_by_path[i].status = "pri" THEN 2 ELSE 0)
                + (IF metadata_by_path[i].file.pri_name THEN 1 ELSE 0)]
       : i \in {k \in 1..Len(metadata_by_path) : metadata_by_path[k].file \in Range(text_files)}}

\* The metadata index decides when it holds a candidate (a positive
\* score) and a document is asked for; otherwise the walk decides, and
\* scores the file names only.
MetadataDecides == target_works > 0 /\ \E e \in ScoredEntries : e.score > 0

Candidates ==
    IF MetadataDecides
    THEN {e \in ScoredEntries : e.score > 0}
    ELSE {[file |-> f, score |-> IF f.pri_name THEN 1 ELSE 0] : f \in Range(text_files)}

\* C19: with only-primary selection, each returned document is the
\* candidate of its work with the highest score and, among equal scores,
\* the smallest relative path, whatever the order of enumeration.
C19_BestCandidateSelected ==
    (disc_pc = "done" /\ only_pri) =>
        \A i \in 1..Len(discovered) :
            \E e \in Candidates :
                /\ e.file.rel = discovered[i].rel
                /\ \A o \in Candidates :
                       o.file.work = e.file.work =>
                           \/ o.score < e.score
                           \/ o.score = e.score /\ e.file.rel <= o.file.rel

\* C20: the returned list never holds more than target_works documents.
C20_AtMostTarget ==
    disc_pc = "done" => Len(discovered) <= target_works

\* C21: the list discovery returns is sorted by relative path (so that
\* the order of enumeration cannot show in the result).
C21_SortedByPath ==
    disc_pc = "done" =>
        \A i, j \in 1..Len(discovered) : i < j => discovered[i].rel < discovered[j].rel

\* The toggle that answers for a code point of the substitution table: the
\* alef variants, the hamza carriers, the kaf and ya forms.
ToggleOf(c) ==
    IF c \in {"U0671", "U0623", "U0625", "U0622"} THEN "normalize_alef_variants"
    ELSE IF c \in {"U0624", "U0626"} THEN "normalize_hamza_conservative"
    ELSE "normalize_persian_kaf_ya"

\* String s with each stage applied exactly when its own toggle is on.
StagewiseNormalized(s, cfg) ==
    LET Kept(c) == /\ ~(cfg["remove_tatweel"] /\ c \in TATWEEL)
                   /\ ~(cfg["remove_diacritics"] /\ c \in AR_DIACRITICS)
        s2 == SelectSeq(s, Kept)
        s3 == [i \in 1..Len(s2) |->
                  IF s2[i] \in DOMAIN CHAR_MAP /\ cfg[ToggleOf(s2[i])]
                  THEN CHAR_MAP[s2[i]] ELSE s2[i]]
    IN strip(collapse_ws(s3, FALSE))

\* C22: the query-side normalizer applies each stage (tatweel removal,
\* diacritic removal, and each substitution group) exactly when that
\* stage's own toggle is enabled.
C22_StagesToggleIndependently ==
    (norm_side = "query" /\ applied = 1) => text = StagewiseNormalized(before, norm_cfg)

\* The candidate pool size the configuration asks for: page * size * the
\* multiplier, kept between the floor and the ceiling.
PoolSize ==
    LET mult == IF hybrid_cfg.multiplier_per_page_size = NoInt THEN 5
                ELSE hybrid_cfg.multiplier_per_page_size
        floor == IF hybrid_cfg.min = NoInt THEN 100 ELSE hybrid_cfg.min
        ceiling == IF hybrid_cfg.max = NoInt THEN 1000 ELSE hybrid_cfg.max
        wanted == req.page * req.size * mult
    IN IF wanted > ceiling THEN (IF ceiling < floor THEN floor ELSE ceiling)
       ELSE IF wanted < floor THEN floor ELSE wanted

CallsTo(fn) == SelectSeq(calls, LAMBDA c : c.fn = fn)

\* The fused score of chunk id cid as an exact fraction.
FusedScore(cid) ==
    LET k == IF hybrid_cfg.rrf_k = NoInt THEN 60 ELSE hybrid_cfg.rrf_k
        rb == PosIn(LexicalCandidates, cid)
        rv == PosIn(VectorCandidates, cid)
    IN IF rb > 0 /\ rv > 0 THEN <<(k + rb) + (k + rv), (k + rb) * (k + rv)>>
       ELSE IF rb > 0 THEN <<1, k + rb>>
       ELSE <<1, k + rv>>

\* C23: in hybrid mode each store is asked once, from offset 0, for
\* exactly the pool size, and the response holds the entries of a
\* descending fused list at positions (page-1)*size up to page*size: at
\* most size hits, no chunk id twice.
C23_PoolAndPage ==
    FusedAnswer =>
        LET ids == [i \in 1..Len(resp.results) |-> resp.results[i].chunk_id]
            pool == Range(LexicalCandidates) \cup Range(VectorCandidates)
            first == (req.page - 1) * req.size
        IN /\ CallsTo("bm25_search") = <<[fn |-> "bm25_search", size |-> PoolSize,
                                          from_ |-> 0, raised |-> FALSE]>>
           /\ CallsTo("vector_search") = <<[fn |-> "vector_search", size |-> PoolSize,
                                            from_ |-> 0, raised |-> FALSE]>>
           /\ Len(ids) <= req.size
           /\ \A i, j \in 1..Len(ids) : i # j => ids[i] # ids[j]
           /\ \E full \in Perms(pool) :
                /\ \A i, j \in 1..Len(full) :
                      i < j => FusedScore(full[i])[1] * FusedScore(full[j])[2]
                                  >= FusedScore(full[j])[1] * FusedScore(full[i])[2]
                /\ ids = [i \in 1..(IF Len(full) - first < 0 THEN 0
                                    ELSE IF Len(full) - first > req.size THEN req.size
                                    ELSE Len(full) - first) |-> full[first + i]]

\* The second page of size 1 under the small pool configuration: both
\* stores asked for 2 candidates, the second fused entry returned.
C23_Witness ==
    /\ FusedAnswer
    /\ hybrid_cfg = SmallPoolCfg
    /\ req.page = 2
    /\ req.size = 1
    /\ Len(resp.results) = 1
    /\ \E i \in 1..Len(calls) : calls[i].fn = "vector_search" /\ calls[i].size = 2

\* The buffered batch as it stands in each store.
BatchInRelational ==
    \A i \in 1..Len(chunk_rows) :
        \E r \in chunks : r.chunk_id = chunk_rows[i].chunk_id
                          /\ r.text_norm = chunk_rows[i].text_norm
BatchInLexical ==
    \A i \in 1..Len(os_docs) :
        \E d \in os_index : d.chunk_id = os_docs[i].chunk_id
                            /\ d.content = os_docs[i].content
BatchInVector ==
    \A i \in 1..Len(chunks_for_vectors) :
        \E q \in qdrant : q.chunk_id = chunks_for_vectors[i].chunk_id
                          /\ q.vector.text = chunks_for_vectors[i].text_norm
BatchLastIndex == chunk_rows[Len(chunk_rows)].chunk_index

\* C24: within a flush the batch is in the relational store before the
\* lexical index is written; indexed_bm25 with the batch's last index is
\* persisted only with the batch in both; the vector store is written
\* only after that status, and embedded is persisted only with the batch
\* in the vector store; a chunk joins the buffer only while the buffer is
\* below the batch size, and a flush holds only chunks beyond the last
\* index already flushed in this pass.
C24_FlushOrder ==
    [][(t_idx >= 1 /\ pc \notin {"off", "idle", "aborted", "except"}) =>
          LET v == Cur
              becomes(st) == /\ ingest_state'[v] # ingest_state[v]
                             /\ ingest_state'[v].status = st
          IN /\ os_index' # os_index => (chunk_rows # <<>> /\ BatchInRelational)
             /\ becomes("indexed_bm25") =>
                    /\ chunk_rows # <<>>
                    /\ BatchInRelational /\ BatchInLexical
                    /\ ingest_state'[v].last_chunk_index = BatchLastIndex
             /\ qdrant' # qdrant =>
                    /\ ingest_state[v].status = "indexed_bm25"
                    /\ ingest_state[v].last_chunk_index = BatchLastIndex
                    /\ Len(chunks_for_vectors) = Len(chunk_rows)
             /\ becomes("embedded") =>
                    /\ BatchInVector
                    /\ ingest_state'[v].last_chunk_index = BatchLastIndex
             /\ Len(chunk_rows') > Len(chunk_rows) => Len(chunk_rows) < OS_BULK_BATCH
             /\ chunks' # chunks /\ pc = "flush_rows" =>
                    \/ ingest_state[v].status = "parsed"
                    \/ /\ ingest_state[v].status \in {"indexed_bm25", "embedded"}
                       /\ \A i \in 1..Len(chunk_rows) :
                             chunk_rows[i].chunk_index > ingest_state[v].last_chunk_index]_vars

\* A document of three chunks after its batch flush of chunks 0 and 1 and
\* its final flush of chunk 2, all with vectors.
C24_Witness ==
    /\ pc = "set_links"
    /\ embeddings_enabled
    /\ t_idx >= 1
    /\ corpus[DiscoveredTexts[t_idx]] = 3
    /\ ingest_state[DiscoveredTexts[t_idx]].status = "embedded"
    /\ ingest_state[DiscoveredTexts[t_idx]].last_chunk_index = 2
    /\ Len(chunk_rows) = 1
    /\ Cardinality({q \in qdrant : q.version_id = DiscoveredTexts[t_idx]}) = 3

\* C25: each getter constructs its client at most once, and every call
\* of it returns one and the same handle.
C25_OneClientPerProcess ==
    \A g \in Getters : constructed[g] <= 1 /\ Cardinality(returned[g]) <= 1

\* C26: no step replaces a stored non-null checksum or word count of a
\* Version row with null.
C26_UpsertKeepsNonNull ==
    [][\A v \in Docs :
          /\ versions[v].checksum # NoVersion.checksum
                => versions'[v].checksum # NoVersion.checksum
          /\ versions[v].word_count # NoVersion.word_count
                => versions'[v].word_count # NoVersion.word_count]_vars

\* C27: when a run is about to make its first vector upsert, the collection
\* exists with the model's output size and cosine distance; and no run
\* creates a collection that already exists.
C27_CollectionMatchesModel ==
    /\ coll_pc = "ensured" =>
          qd_collection = Collection(model_dim, "Cosine")
    /\ coll_created <= 1

\* The filter sets of a search request over the metadata of the corpus.
FilterSets ==
    [langs : SUBSET {"ara"}, pri_only : BOOLEAN, period : SUBSET {"P1"},
     region : SUBSET {"R1"}, tags : SUBSET {"T1"}, version : SUBSET {"L1"}]

\* filter_chunk_ids: the lexical filter clauses over a document
OsFilterAccepts(d, f) ==
    /\ f.pri_only => d.is_pri
    /\ f.langs # {} => d.lang \in f.langs
    /\ f.period # {} => d.period \in f.period
    /\ f.region # {} => d.region \cap f.region # {}
    /\ f.tags # {} => d.tags \cap f.tags # {}
    /\ f.version # {} => d.version_label \in f.version

\* vector_search: the `must` conditions over a point's payload; a condition
\* on a key the payload does not hold matches nothing.
QdFilterAccepts(pt, f) ==
    /\ f.pri_only => ("is_pri" \in DOMAIN pt /\ pt.is_pri)
    /\ f.langs # {} => ("lang" \in DOMAIN pt /\ pt.lang \in f.langs)
    /\ f.period # {} => ("period" \in DOMAIN pt /\ pt.period \in f.period)
    /\ f.region # {} => ("region" \in DOMAIN pt /\ pt.region \cap f.region # {})
    /\ f.tags # {} => ("tags" \in DOMAIN pt /\ pt.tags \cap f.tags # {})
    /\ f.version # {} =>
          ("version_label" \in DOMAIN pt /\ pt.version_label \in f.version)

\* C28: for every ingested chunk held by both stores and every filter set,
\* the vector-store filter accepts the point exactly when the lexical
\* filter accepts the document.
C28_FiltersAgree ==
    \A d \in os_index : \A pt \in qdrant :
        d.chunk_id = pt.chunk_id =>
            \A f \in FilterSets : OsFilterAccepts(d, f) <=> QdFilterAccepts(pt, f)

\* The positions of run() from the start of the chunk loop of the current
\* text to the end of its try body.
ChunkPhase == {"buffer", "flush_rows", "flush_lexical", "flush_state_bm25",
               "flush_vector", "flush_state_embedded", "set_links", "set_complete"}

PosOf(v) == CHOOSE i \in 1..Len(DiscoveredTexts) : DiscoveredTexts[i] = v

IndicesOf(cs) == {cs[k].chunk_index : k \in 1..Len(cs)}

\* The chunk indices this pass has produced for a version: all of them for
\* a text the loop has left, the ones taken from the generator for the
\* current text, none for a text the loop has not reached.
ProducedThisPass(v) ==
    IF t_idx = 0 \/ PosOf(v) > t_idx THEN {}
    ELSE IF PosOf(v) < t_idx
         THEN IndicesOf(chunk_words(DocWords(corpus[v]), CHUNK_TARGET_WORDS,
                                    CHUNK_MAX_OVERLAP_WORDS))
    ELSE IF pc \in ChunkPhase \/ (pc = "except" /\ exc \in ChunkPhase)
         THEN IndicesOf(chunk_words(DocWords(raw), CHUNK_TARGET_WORDS,
                                    CHUNK_MAX_OVERLAP_WORDS)) \ IndicesOf(gen)
    ELSE {}

InRelational(v, j) == \E r \in chunks : r.chunk_id = ChunkId(v, j)
InLexical(v, j) == \E d \in os_index : d.chunk_id = ChunkId(v, j)
InVector(v, j) == \E q \in qdrant : q.chunk_id = ChunkId(v, j)

\* C29: during a pass, a status of indexed_bm25 with last_chunk_index = i
\* means the chunks 0..i produced by the pass are in the relational store
\* and the lexical index; embedded means they are in the vector store too;
\* complete (with embeddings enabled) means every chunk the pass produced
\* is in all three stores.
C29_StatusImpliesStored ==
    \A v \in Docs :
        LET st == ingest_state[v]
            upto == {j \in ProducedThisPass(v) : j <= st.last_chunk_index}
        IN /\ st.status \in {"indexed_bm25", "embedded"} =>
                 \A j \in upto : InRelational(v, j) /\ InLexical(v, j)
           /\ st.status = "embedded" => \A j \in upto : InVector(v, j)
           /\ (st.status = "complete" /\ embeddings_enabled) =>
                 \A j \in ProducedThisPass(v) :
                     InRelational(v, j) /\ InLexical(v, j) /\ InVector(v, j)

\* After a batch flush and a final flush of the current text, the status
\* is embedded at the last of three chunks, all produced by this pass.
C29_Witness ==
    /\ t_idx >= 1
    /\ pc = "set_links"
    /\ ingest_state[DiscoveredTexts[t_idx]].status = "embedded"
    /\ ingest_state[DiscoveredTexts[t_idx]].last_chunk_index = 2
    /\ ProducedThisPass(DiscoveredTexts[t_idx]) = {0, 1, 2}

\* C30: under the default configuration the ingest normalizer, the
\* query-side normalizer and the evaluation runner's normalizer give the
\* same output for the string just normalized, whichever of them ran.
C30_ThreeNormalizersAgree ==
    (applied >= 1 /\ norm_cfg = DefaultNormCfg) =>
        /\ text = ingest_normalize_arabic_script(before)
        /\ text = normalize_arabic_script(before, DefaultNormCfg)
        /\ text = eval_normalize_arabic_script(before)

\* The evaluation runner normalized a string holding tatweel, alef maksura
\* and a newline: alef maksura became yeh, one step of the table.
C30_Witness ==
    /\ norm_side = "eval"
    /\ applied = 1
    /\ before = <<"U0640", "U0649", "NEWLINE">>
    /\ text = <<"U064A">>

====
